---- MODULE Spec2Model ----
(***************************************************************************)
(* ArtOfVM: the textual assembler (src/src/assembler.rs) and the           *)
(* register+stack interpreter (src/src/vm.rs), modelled as state machines. *)
(*                                                                         *)
(* Representation of machine integers.  A Rust integer of 8, 16, 32 or 64  *)
(* bits is held as its bit pattern, cut into limbs, least significant      *)
(* limb first: one limb below 256 for the 8-bit kinds, and one, two or     *)
(* four limbs below 65536 for the 16-, 32- and 64-bit kinds.  Signed kinds *)
(* hold their two's-complement pattern, floats their IEEE-754 pattern.     *)
(* No number of the model exceeds what TLC's integers hold.                *)
(***************************************************************************)
EXTENDS Integers, Sequences, FiniteSets, TLC

VARIABLES
    \* ---- Assembler (assembler.rs:12-20)
    src,            \* Vec<char>: the source text, one character per element
    i,              \* index of the current character (0-based)
    ch,             \* the current character
    bit,            \* byte offset of the next byte of the final stream
    machine_c,      \* Vec<u8>: the bytes emitted so far
    lbls,           \* set of <<name, position>>: the HashMap of labels
    lbl_replaces,   \* Vec<(usize, String)>: the patch list
    apc,            \* where assemble() stands: "emit", "patch", "done", "panicked", "idle"
    patch_k,        \* number of patch-list entries already inserted
    \* ---- VirtualMachine (vm.rs:53-63)
    instr_ptr, instr_mem, virt_mem, stack, reg, flag_eq, flag_gt, is_exe,
    vpc,            \* where the VM stands: "none", "new", "running", "returned", "panicked", "exited"
    \* ---- environment
    build,          \* "debug" (overflow checks on) or "release" (wrapping)
    stdout,         \* characters written by print!
    stderr,         \* characters written by eprintln!
    written,        \* files written by fs::write: [path, data]
    \* ---- history (observation only, never read by an action's guard)
    items,          \* the source the text was rendered from
    decoded,        \* instructions decoded so far, each with its byte offset
    hist,           \* the last steps of the main loop, each with its pre-state
    calls,          \* number of calls of exec() made
    returns,        \* number of returns of exec()
    steps           \* number of iterations of the main loop made

asmVars == <<src, i, ch, bit, machine_c, lbls, lbl_replaces, apc, patch_k>>
vmVars == <<instr_ptr, instr_mem, virt_mem, stack, reg, flag_eq, flag_gt, is_exe, vpc>>
envVars == <<build, stdout, stderr, written>>
histVars == <<items, decoded, hist, calls, returns, steps>>
vars == <<asmVars, vmVars, envVars, histVars>>

----------------------------------------------------------------------------
(* Sequences *)

Last(s) == s[Len(s)]

Front(s) == SubSeq(s, 1, Len(s) - 1)

RECURSIVE Flatten(_)
Flatten(ss) == IF ss = <<>> THEN <<>> ELSE Head(ss) \o Flatten(Tail(ss))

Range(s) == {s[k] : k \in 1..Len(s)}

\* Vec::insert(at, x) with a 0-based index
InsertAt(s, at, x) == SubSeq(s, 1, at) \o <<x>> \o SubSeq(s, at + 1, Len(s))

\* F(x), with x worked out once whatever the number of times F uses it
Bind(x, F(_)) == CHOOSE r \in {F(v) : v \in {x}} : TRUE

\* All sequences over S of length 0..n
SeqsUpTo(S, n) == UNION {[1..k -> S] : k \in 0..n}

----------------------------------------------------------------------------
(* The value model: vm.rs:6-19 *)

Variants == {"U8", "I8", "U16", "I16", "U32", "I32", "U64", "I64", "F32", "F64"}

IntVariants == Variants \ {"F32", "F64"}

SignedVariants == {"I8", "I16", "I32", "I64"}

AddrVariants == {"U8", "U16", "U32", "U64"}

\* mem::size_of of the payload type
SizeOf(variant) ==
    CASE variant \in {"U8", "I8"} -> 1
      [] variant \in {"U16", "I16"} -> 2
      [] variant \in {"U32", "I32", "F32"} -> 4
      [] variant \in {"U64", "I64", "F64"} -> 8

LimbBase(size) == IF size = 1 THEN 256 ELSE 65536

NLimbs(size) == IF size = 1 THEN 1 ELSE size \div 2

ImmNone == [variant |-> "None", v |-> <<>>]

Imm(variant, v) == [variant |-> variant, v |-> v]

\* A small number as a value of the given variant
ImmOf(variant, n) ==
    Imm(variant, [k \in 1..NLimbs(SizeOf(variant)) |-> IF k = 1 THEN n ELSE 0])

U8(n) == ImmOf("U8", n)

U32(n) == ImmOf("U32", n)

U64(n) == ImmOf("U64", n)

ZeroV(size) == [k \in 1..NLimbs(size) |-> 0]

MaxV(size) == [k \in 1..NLimbs(size) |-> LimbBase(size) - 1]

\* The pattern of the most negative value of a signed kind: only the sign bit
MinV(size) ==
    [k \in 1..NLimbs(size) |-> IF k = NLimbs(size) THEN LimbBase(size) \div 2 ELSE 0]

SignBit(v, size) == v[NLimbs(size)] >= LimbBase(size) \div 2

\* v + 1 modulo 2^(8*size): limb-wise addition with carry
RECURSIVE IncFrom(_, _, _)
IncFrom(v, k, base) ==
    IF k > Len(v) THEN v
    ELSE IF v[k] + 1 < base THEN [v EXCEPT ![k] = v[k] + 1]
    ELSE IncFrom([v EXCEPT ![k] = 0], k + 1, base)

\* Two's-complement negation modulo 2^(8*size)
NegV(v, size) ==
    IncFrom([k \in 1..Len(v) |-> LimbBase(size) - 1 - v[k]], 1, LimbBase(size))

\* u16/u32/u64::to_le_bytes, and `i as u8` for the one-byte kinds
to_le_bytes(v, size) ==
    IF size = 1 THEN <<v[1]>>
    ELSE [k \in 1..size |->
            IF k % 2 = 1 THEN v[(k + 1) \div 2] % 256 ELSE v[k \div 2] \div 256]

\* from_le_bytes of a slice of `size` bytes
from_le_bytes(bytes, size) ==
    IF size = 1 THEN <<bytes[1]>>
    ELSE [k \in 1..(size \div 2) |-> bytes[2 * k - 1] + 256 * bytes[2 * k]]

\* `i as usize` of an address-kind value, when it is below `limit`;
\* -1 stands for every index that is not below `limit`
AsIndexBelow(v, limit) ==
    IF (\A k \in 2..Len(v) : v[k] = 0) /\ v[1] < limit THEN v[1] ELSE -1

----------------------------------------------------------------------------
(* Characters and decimal text *)

NUL == "NUL"

Whitespace == {" ", "\n", "\r", "\t"}

Digits == <<"0", "1", "2", "3", "4", "5", "6", "7", "8", "9">>

IsDigit(c) == \E d \in 1..10 : Digits[d] = c

DigitVal(c) == (CHOOSE d \in 1..10 : Digits[d] = c) - 1

\* Decimal text of a small natural number
RECURSIVE DecimalNat(_)
DecimalNat(n) ==
    IF n < 10 THEN <<Digits[n + 1]>>
    ELSE DecimalNat(n \div 10) \o <<Digits[(n % 10) + 1]>>

\* Quotient and remainder of a limb vector by ten, most significant limb first
RECURSIVE DivMod10From(_, _, _, _)
DivMod10From(v, k, rem, base) ==
    IF k = 0 THEN [q |-> v, r |-> rem]
    ELSE LET cur == rem * base + v[k]
         IN DivMod10From([v EXCEPT ![k] = cur \div 10], k - 1, cur % 10, base)

RECURSIVE DecimalDigitsV(_, _)
DecimalDigitsV(v, size) ==
    IF v = ZeroV(size) THEN <<>>
    ELSE LET dm == DivMod10From(v, Len(v), 0, LimbBase(size))
         IN DecimalDigitsV(dm.q, size) \o <<Digits[dm.r + 1]>>

\* Decimal text of an unsigned bit pattern
DecimalV(v, size) == IF v = ZeroV(size) THEN <<"0">> ELSE DecimalDigitsV(v, size)

----------------------------------------------------------------------------
(* str::parse for the integer kinds, as immed(), reg() and addr() use it *)

BigZero == <<0, 0, 0, 0>>

\* acc * 10 + d over four 16-bit limbs; over: the result needs more than 64 bits
MulAdd10(acc, d) ==
    LET t1 == acc[1] * 10 + d
        t2 == acc[2] * 10 + t1 \div 65536
        t3 == acc[3] * 10 + t2 \div 65536
        t4 == acc[4] * 10 + t3 \div 65536
    IN [big |-> <<t1 % 65536, t2 % 65536, t3 % 65536, t4 % 65536>>,
        over |-> t4 \div 65536 > 0]

\* The digits of a decimal number, accumulated left to right
RECURSIVE ParseDigits(_, _)
ParseDigits(str, acc) ==
    IF str = <<>> THEN [ok |-> TRUE, big |-> acc]
    ELSE IF ~IsDigit(Head(str)) THEN [ok |-> FALSE, big |-> acc]
    ELSE Bind(MulAdd10(acc, DigitVal(Head(str))),
              LAMBDA m : IF m.over THEN [ok |-> FALSE, big |-> acc]
                         ELSE ParseDigits(Tail(str), m.big))

\* big < 2^(8*size)
FitsUnsigned(big, size) ==
    /\ \A k \in 1..4 : k > NLimbs(size) => big[k] = 0
    /\ big[1] < LimbBase(size)

BigToV(big, size) == SubSeq(big, 1, NLimbs(size))

\* big < 2^(8*size-1)
FitsPositive(big, size) ==
    FitsUnsigned(big, size) /\ ~SignBit(BigToV(big, size), size)

\* big <= 2^(8*size-1)
FitsNegative(big, size) ==
    FitsUnsigned(big, size)
        /\ (~SignBit(BigToV(big, size), size) \/ BigToV(big, size) = MinV(size))

\* str.parse::<T>() for an integer type T of `size` bytes: ok = FALSE is Err
\* (empty text, a lone sign, a character that is no digit, a value out of range)
ParseInt(str, size, signed) ==
    LET sign == IF str # <<>> /\ (Head(str) = "+" \/ (Head(str) = "-" /\ signed))
                THEN Head(str) ELSE ""
        digits == IF sign = "" THEN str ELSE Tail(str)
    IN Bind(ParseDigits(digits, BigZero),
            LAMBDA p :
              IF digits = <<>> \/ ~p.ok THEN [ok |-> FALSE, v |-> ZeroV(size)]
              ELSE IF ~signed
                   THEN [ok |-> FitsUnsigned(p.big, size), v |-> BigToV(p.big, size)]
              ELSE IF sign = "-"
                   THEN [ok |-> FitsNegative(p.big, size),
                         v |-> NegV(BigToV(p.big, size), size)]
              ELSE [ok |-> FitsPositive(p.big, size), v |-> BigToV(p.big, size)])

\* str.parse::<usize>(): the value stays in four limbs
ParseUsize(str) ==
    LET sign == IF str # <<>> /\ Head(str) = "+" THEN "+" ELSE ""
        digits == IF sign = "" THEN str ELSE Tail(str)
    IN Bind(ParseDigits(digits, BigZero),
            LAMBDA p : [ok |-> digits # <<>> /\ p.ok, big |-> p.big])

\* `n as u8` of a usize
AsU8(big) == big[1] % 256

\* The float literals the model reads, with the bits str::parse::<f32/f64> gives
FloatLiterals ==
    { [text |-> <<"0">>, variant |-> "F32", v |-> <<0, 0>>],
      [text |-> <<"1">>, variant |-> "F32", v |-> <<0, 16256>>],
      [text |-> <<"2">>, variant |-> "F32", v |-> <<0, 16384>>],
      [text |-> <<"1", ".", "5">>, variant |-> "F32", v |-> <<0, 16320>>],
      [text |-> <<"0">>, variant |-> "F64", v |-> <<0, 0, 0, 0>>],
      [text |-> <<"1">>, variant |-> "F64", v |-> <<0, 0, 0, 16368>>],
      [text |-> <<"2">>, variant |-> "F64", v |-> <<0, 0, 0, 16384>>],
      [text |-> <<"1", ".", "5">>, variant |-> "F64", v |-> <<0, 0, 0, 16376>>] }

ParseFloat(str, variant) ==
    IF \E f \in FloatLiterals : f.text = str /\ f.variant = variant
    THEN [ok |-> TRUE,
          v |-> (CHOOSE f \in FloatLiterals : f.text = str /\ f.variant = variant).v]
    ELSE [ok |-> FALSE, v |-> ZeroV(SizeOf(variant))]

\* -f of a float: the sign bit flipped
NegFloat(v, size) ==
    [v EXCEPT ![NLimbs(size)] = (v[NLimbs(size)] + 32768) % 65536]

----------------------------------------------------------------------------
(* The assembler's lexer: assembler.rs:448-461, 533-655 *)

RECURSIVE ReadWord(_, _, _)
ReadWord(s, k, buf) ==
    IF s[k + 1] \in Whitespace \cup {NUL} THEN [buf |-> buf, i |-> k]
    ELSE ReadWord(s, k + 1, Append(buf, s[k + 1]))

RECURSIVE SkipWs(_, _)
SkipWs(s, k) == IF s[k + 1] \in Whitespace THEN SkipWs(s, k + 1) ELSE k

\* rd_til_ws: the characters up to the next whitespace or NUL, then the
\* whitespace after them is skipped; i is the index it leaves
rd_til_ws(s, k) ==
    LET w == ReadWord(s, k, <<>>)
    IN [buf |-> w.buf, i |-> SkipWs(s, w.i)]

\* The type names immed() knows
KindOf(int_type) ==
    CASE int_type = <<"u", "8">> -> "U8"
      [] int_type = <<"u", "1", "6">> -> "U16"
      [] int_type = <<"u", "3", "2">> -> "U32"
      [] int_type = <<"u", "6", "4">> -> "U64"
      [] int_type = <<"i", "8">> -> "I8"
      [] int_type = <<"i", "1", "6">> -> "I16"
      [] int_type = <<"i", "3", "2">> -> "I32"
      [] int_type = <<"i", "6", "4">> -> "I64"
      [] int_type = <<"f", "3", "2">> -> "F32"
      [] int_type = <<"f", "6", "4">> -> "F64"
      [] OTHER -> "None"

\* Position of the first "$" of a text, 0 when it has none
DollarAt(str) ==
    IF \E k \in 1..Len(str) : str[k] = "$"
    THEN CHOOSE k \in 1..Len(str) : str[k] = "$" /\ \A j \in 1..(k - 1) : str[j] # "$"
    ELSE 0

\* `if is_neg { -i } else { i }` on a parsed signed integer: negating the most
\* negative value overflows, which panics with overflow checks and wraps without
NegateParsed(v, size, is_neg, bld) ==
    IF ~is_neg THEN [ok |-> TRUE, v |-> v]
    ELSE IF v = MinV(size) /\ bld = "debug" THEN [ok |-> FALSE, v |-> v]
    ELSE [ok |-> TRUE, v |-> NegV(v, size)]

\* immed() on the token it read.  ok = FALSE covers both `return None` (every
\* caller panics on it) and the panics inside immed(): the index past the end
\* when the token has no "$", and unwrap() on a number that does not parse.
immed(tok, bld) ==
    LET is_neg == Len(tok) >= 1 /\ tok[1] = "-"
        int == IF is_neg THEN Tail(tok) ELSE tok
        t == int[1]
        d == DollarAt(int)
        variant == KindOf(SubSeq(int, 1, d - 1))
        int_str == SubSeq(int, d + 1, Len(int))
        size == SizeOf(variant)
        bad == [ok |-> FALSE, imm |-> ImmNone]
    IN IF Len(tok) < 4 THEN bad
       ELSE IF t \notin {"i", "u", "f"} THEN bad
       ELSE IF t = "u" /\ is_neg THEN bad
       ELSE IF d = 0 \/ variant = "None" THEN bad
       ELSE IF variant \in {"F32", "F64"}
            THEN Bind(ParseFloat(int_str, variant),
                      LAMBDA p :
                        IF ~p.ok THEN bad
                        ELSE [ok |-> TRUE,
                              imm |-> Imm(variant,
                                          IF is_neg THEN NegFloat(p.v, size) ELSE p.v)])
       ELSE Bind(ParseInt(int_str, size, variant \in SignedVariants),
                 LAMBDA p :
                   Bind(NegateParsed(p.v, size, is_neg, bld),
                        LAMBDA n : IF ~p.ok \/ ~n.ok THEN bad
                                   ELSE [ok |-> TRUE, imm |-> Imm(variant, n.v)]))

\* reg() on the token it read: Some(n) or None
reg_tok(tok) ==
    IF Len(tok) < 2 THEN [ok |-> FALSE, big |-> BigZero]
    ELSE IF tok[1] # "R" THEN [ok |-> FALSE, big |-> BigZero]
    ELSE ParseUsize(Tail(tok))

\* addr() on the token it read: Some(n) or None
addr_tok(tok) == ParseUsize(tok)

\* psh_encoded_immed: the tag byte and the little-endian payload
TagOf(variant) ==
    CASE variant = "None" -> 255
      [] variant = "U8" -> 0
      [] variant = "I8" -> 1
      [] variant = "U16" -> 2
      [] variant = "I16" -> 3
      [] variant = "U32" -> 4
      [] variant = "I32" -> 5
      [] variant = "U64" -> 6
      [] variant = "I64" -> 7
      [] variant = "F32" -> 8
      [] variant = "F64" -> 9

psh_encoded_immed(immediate) ==
    IF immediate.variant = "None" THEN <<255>>
    ELSE <<TagOf(immediate.variant)>>
            \o to_le_bytes(immediate.v, SizeOf(immediate.variant))

\* A count that leaves the tag byte out, for comparison with EncodedBit
EncodedBitNoTag(immediate) ==
    IF immediate.variant = "None" THEN 0 ELSE SizeOf(immediate.variant)

\* What psh_encoded_immed adds to `bit`
EncodedBit(immediate) ==
    IF immediate.variant = "None" THEN 1 ELSE 1 + SizeOf(immediate.variant)

----------------------------------------------------------------------------
(* Assembler::assemble_instr: assembler.rs:83-446 *)

\* The arms of `match opcode.as_str()`: the opcode byte pushed and the operands
\* read after it ("lbl" is a symbolic jump, whose address byte is patched in)
Mnemonic(opcode) ==
    CASE opcode = <<"_">> -> [code |-> 0, shape |-> "none"]
      [] opcode = <<"h", "l", "t">> -> [code |-> 1, shape |-> "none"]
      [] opcode = <<"i", "n", "t">> -> [code |-> 2, shape |-> "addr"]
      [] opcode = <<"$">> -> [code |-> 3, shape |-> "immed"]
      [] opcode = <<"$", "$">> -> [code |-> 4, shape |-> "reg"]
      [] opcode = <<"%">> -> [code |-> 5, shape |-> "reg"]
      [] opcode = <<"@">> -> [code |-> 6, shape |-> "reg_immed"]
      [] opcode = <<":">> -> [code |-> 7, shape |-> "reg_reg"]
      [] opcode = <<"/", "/">> -> [code |-> 8, shape |-> "lbl"]
      [] opcode = <<"/", "=">> -> [code |-> 9, shape |-> "lbl"]
      [] opcode = <<"/", "!">> -> [code |-> 10, shape |-> "lbl"]
      [] opcode = <<"/", ">">> -> [code |-> 11, shape |-> "lbl"]
      [] opcode = <<"/", "<">> -> [code |-> 12, shape |-> "lbl"]
      [] opcode = <<"/", "/", "R">> -> [code |-> 8, shape |-> "addr"]
      [] opcode = <<"/", "=", "R">> -> [code |-> 9, shape |-> "addr"]
      [] opcode = <<"/", "!", "R">> -> [code |-> 10, shape |-> "addr"]
      [] opcode = <<"/", ">", "R">> -> [code |-> 11, shape |-> "addr"]
      [] opcode = <<"/", "<", "R">> -> [code |-> 12, shape |-> "addr"]
      [] opcode = <<"=">> -> [code |-> 13, shape |-> "reg_reg"]
      [] opcode = <<"+">> -> [code |-> 14, shape |-> "reg_reg"]
      [] opcode = <<"-">> -> [code |-> 15, shape |-> "reg_reg"]
      [] opcode = <<"*">> -> [code |-> 16, shape |-> "reg_reg"]
      [] opcode = <<"/">> -> [code |-> 17, shape |-> "reg_reg"]
      [] opcode = <<"&">> -> [code |-> 18, shape |-> "reg_reg"]
      [] opcode = <<"|">> -> [code |-> 19, shape |-> "reg_reg"]
      [] opcode = <<"^">> -> [code |-> 20, shape |-> "reg_reg"]
      [] opcode = <<">">> -> [code |-> 21, shape |-> "reg_immed"]
      [] opcode = <<"<">> -> [code |-> 22, shape |-> "reg_immed"]
      [] opcode = <<"s", "t", "r">> -> [code |-> 23, shape |-> "addr"]
      [] opcode = <<"s", "t", "r", "R">> -> [code |-> 24, shape |-> "reg"]
      [] opcode = <<"l", "d">> -> [code |-> 25, shape |-> "addr"]
      [] opcode = <<"l", "d", "R">> -> [code |-> 26, shape |-> "reg"]
      [] OTHER -> [code |-> 0, shape |-> "invalid"]

\* lbl() with a fault seeded: bit is not advanced over the address byte
lblNoAdvance(s, k, b) ==
    LET name == rd_til_ws(s, k)
    IN [i |-> name.i, bit |-> b, replace |-> <<b + 1, name.buf>>]

\* lbl(): the name is read, bit is advanced over the address byte that is not
\* written, and (bit, name) joins the patch list.  b is bit after the opcode.
lbl(s, k, b) ==
    LET name == rd_til_ws(s, k)
    IN [i |-> name.i, bit |-> b + 1, replace |-> <<b + 1, name.buf>>]

\* One arm of assemble_instr after the opcode was read: k is the index after
\* the opcode token, b is bit after `self.bit += 1`.  ok = FALSE is a panic.
OperandsOf(t1, t2, s, k, b, m, bld) ==
    LET none == <<>>
    IN CASE m.shape = "none" ->
                [ok |-> TRUE, i |-> k, bit |-> b, bytes |-> <<m.code>>, replaces |-> none]
         [] m.shape = "addr" ->
                Bind(addr_tok(t1.buf),
                     LAMBDA a : [ok |-> a.ok, i |-> t1.i, bit |-> b + 1,
                                 bytes |-> <<m.code, AsU8(a.big)>>, replaces |-> none])
         [] m.shape = "reg" ->
                Bind(reg_tok(t1.buf),
                     LAMBDA r : [ok |-> r.ok, i |-> t1.i, bit |-> b + 1,
                                 bytes |-> <<m.code, AsU8(r.big)>>, replaces |-> none])
         [] m.shape = "immed" ->
                Bind(immed(t1.buf, bld),
                     LAMBDA im : [ok |-> im.ok, i |-> t1.i, bit |-> b + EncodedBit(im.imm),
                                  bytes |-> <<m.code>> \o psh_encoded_immed(im.imm),
                                  replaces |-> none])
         [] m.shape = "reg_immed" ->
                Bind(reg_tok(t1.buf),
                     LAMBDA r :
                       Bind(immed(t2.buf, bld),
                            LAMBDA im :
                              [ok |-> r.ok /\ im.ok, i |-> t2.i,
                               bit |-> b + 1 + EncodedBit(im.imm),
                               bytes |-> <<m.code, AsU8(r.big)>>
                                            \o psh_encoded_immed(im.imm),
                               replaces |-> none]))
         [] m.shape = "reg_reg" ->
                Bind(reg_tok(t1.buf),
                     LAMBDA ra :
                       Bind(reg_tok(t2.buf),
                            LAMBDA rb :
                              [ok |-> ra.ok /\ rb.ok, i |-> t2.i, bit |-> b + 2,
                               bytes |-> <<m.code, AsU8(ra.big), AsU8(rb.big)>>,
                               replaces |-> none]))
         [] m.shape = "lbl" ->
                Bind(lbl(s, k, b),
                     LAMBDA l : [ok |-> TRUE, i |-> l.i, bit |-> l.bit,
                                 bytes |-> <<m.code>>, replaces |-> <<l.replace>>])
         [] OTHER ->
                [ok |-> FALSE, i |-> k, bit |-> b, bytes |-> none, replaces |-> none]

\* The operand tokens are read where the arm reads them: the first after the
\* opcode, the second after the first
Operands(s, k, b, m, bld) ==
    Bind(rd_til_ws(s, k),
         LAMBDA t1 : Bind(rd_til_ws(s, t1.i),
                          LAMBDA t2 : OperandsOf(t1, t2, s, k, b, m, bld)))

\* An insert that keeps the position a name already has, for comparison with
\* MapInsert
MapInsertKeepFirst(map, name, pos) ==
    IF \E e \in map : e[1] = name THEN map ELSE map \cup {<<name, pos>>}

\* HashMap::insert: a later declaration of a name replaces the earlier one
MapInsert(map, name, pos) == {e \in map : e[1] # name} \cup {<<name, pos>>}

MapHas(map, name) == \E e \in map : e[1] = name

MapGet(map, name) == (CHOOSE e \in map : e[1] = name)[2]

AfterInstr(k) == IF src[k + 1] = NUL THEN "patch" ELSE "emit"

\* One call of assemble_instr from the loop of assemble(): a label declaration
DeclareLabel ==
    /\ apc = "emit" /\ ch = "."
    /\ \E name \in {rd_til_ws(src, i + 1)} :
          /\ lbls' = MapInsert(lbls, name.buf, bit)
          /\ i' = name.i
          /\ ch' = src[name.i + 1]
          /\ apc' = AfterInstr(name.i)
    /\ UNCHANGED <<src, bit, machine_c, lbl_replaces, patch_k>>
    /\ UNCHANGED <<vmVars, envVars, histVars>>

\* One call of assemble_instr from the loop of assemble(): an instruction
AssembleInstr ==
    /\ apc = "emit" /\ ch # "."
    /\ \E opcode \in {rd_til_ws(src, i)} :
       \E m \in {Mnemonic(opcode.buf)} :
       \E o \in {Operands(src, opcode.i, bit + 1, m, build)} :
          IF o.ok
          THEN /\ machine_c' = machine_c \o o.bytes
               /\ bit' = o.bit
               /\ lbl_replaces' = lbl_replaces \o o.replaces
               /\ i' = o.i
               /\ ch' = src[o.i + 1]
               /\ apc' = AfterInstr(o.i)
          ELSE /\ apc' = "panicked"
               /\ UNCHANGED <<machine_c, bit, lbl_replaces, i, ch>>
    /\ UNCHANGED <<src, lbls, patch_k>>
    /\ UNCHANGED <<vmVars, envVars, histVars>>

\* One iteration of the patch loop of assemble(): assembler.rs:70-77
PatchOne(mc, entry, map) == InsertAt(mc, entry[1] - 1, MapGet(map, entry[2]) % 256)

\* A patch loop that passes over a name it does not find, for comparison with
\* Patch
PatchSkipping ==
    /\ apc = "patch" /\ patch_k < Len(lbl_replaces)
    /\ LET entry == lbl_replaces[patch_k + 1]
       IN IF ~MapHas(lbls, entry[2])
          THEN /\ patch_k' = patch_k + 1
               /\ UNCHANGED <<machine_c, apc>>
          ELSE IF entry[1] - 1 <= Len(machine_c)
          THEN /\ machine_c' = PatchOne(machine_c, entry, lbls)
               /\ patch_k' = patch_k + 1
               /\ apc' = "patch"
          ELSE /\ apc' = "panicked"
               /\ UNCHANGED <<machine_c, patch_k>>
    /\ UNCHANGED <<src, i, ch, bit, lbls, lbl_replaces>>
    /\ UNCHANGED <<vmVars, envVars, histVars>>

Patch ==
    /\ apc = "patch" /\ patch_k < Len(lbl_replaces)
    /\ LET entry == lbl_replaces[patch_k + 1]
       IN IF MapHas(lbls, entry[2]) /\ entry[1] - 1 <= Len(machine_c)
          THEN /\ machine_c' = PatchOne(machine_c, entry, lbls)
               /\ patch_k' = patch_k + 1
               /\ apc' = "patch"
          ELSE /\ apc' = "panicked"
               /\ UNCHANGED <<machine_c, patch_k>>
    /\ UNCHANGED <<src, i, ch, bit, lbls, lbl_replaces>>
    /\ UNCHANGED <<vmVars, envVars, histVars>>

\* The end of assemble(): the trailing HLT and the return (assembler.rs:79-80)
Finish ==
    /\ apc = "patch" /\ patch_k = Len(lbl_replaces)
    /\ machine_c' = Append(machine_c, 1)
    /\ apc' = "done"
    /\ UNCHANGED <<src, i, ch, bit, lbls, lbl_replaces, patch_k>>
    /\ UNCHANGED <<vmVars, envVars, histVars>>

----------------------------------------------------------------------------
(* Source texts.  A source is written down as a sequence of items (label   *)
(* declarations and instructions with their operands) and rendered to the  *)
(* characters the assembler reads, in the textual form of spec section 4.2 *)
(* and of the comments of assembler.rs:22-50.                              *)

R(n) == [t |-> "reg", n |-> n, imm |-> ImmNone, name |-> <<>>]

A(n) == [t |-> "addr", n |-> n, imm |-> ImmNone, name |-> <<>>]

I(immediate) == [t |-> "imm", n |-> 0, imm |-> immediate, name |-> <<>>]

L(name) == [t |-> "lbl", n |-> 0, imm |-> ImmNone, name |-> name]

\* An operand written as the given characters, whatever they are
T(text) == [t |-> "text", n |-> 0, imm |-> ImmNone, name |-> text]

Ins(op, ops) == [kind |-> "instr", op |-> op, ops |-> ops, name |-> <<>>]

Lbl(name) == [kind |-> "label", op |-> "", ops |-> <<>>, name |-> name]

JumpOps == {"JMP", "JE", "JNE", "JG", "JL"}

IsSymJump(item) ==
    item.kind = "instr" /\ item.op \in JumpOps /\ item.ops[1].t = "lbl"

MnemonicText(op) ==
    CASE op = "NOP" -> <<"_">>
      [] op = "HLT" -> <<"h", "l", "t">>
      [] op = "INT" -> <<"i", "n", "t">>
      [] op = "PUSH" -> <<"$">>
      [] op = "PUSHR" -> <<"$", "$">>
      [] op = "POP" -> <<"%">>
      [] op = "LDI" -> <<"@">>
      [] op = "CPY" -> <<":">>
      [] op = "JMP" -> <<"/", "/">>
      [] op = "JE" -> <<"/", "=">>
      [] op = "JNE" -> <<"/", "!">>
      [] op = "JG" -> <<"/", ">">>
      [] op = "JL" -> <<"/", "<">>
      [] op = "CMP" -> <<"=">>
      [] op = "ADD" -> <<"+">>
      [] op = "SUB" -> <<"-">>
      [] op = "MUL" -> <<"*">>
      [] op = "DIV" -> <<"/">>
      [] op = "AND" -> <<"&">>
      [] op = "OR" -> <<"|">>
      [] op = "XOR" -> <<"^">>
      [] op = "SHR" -> <<">">>
      [] op = "SHL" -> <<"<">>
      [] op = "HSTORE" -> <<"s", "t", "r">>
      [] op = "HSTORER" -> <<"s", "t", "r", "R">>
      [] op = "HLOAD" -> <<"l", "d">>
      [] op = "HLOADR" -> <<"l", "d", "R">>
      [] OTHER -> <<"?">>

KindText(variant) ==
    CASE variant = "U8" -> <<"u", "8">>
      [] variant = "U16" -> <<"u", "1", "6">>
      [] variant = "U32" -> <<"u", "3", "2">>
      [] variant = "U64" -> <<"u", "6", "4">>
      [] variant = "I8" -> <<"i", "8">>
      [] variant = "I16" -> <<"i", "1", "6">>
      [] variant = "I32" -> <<"i", "3", "2">>
      [] variant = "I64" -> <<"i", "6", "4">>
      [] variant = "F32" -> <<"f", "3", "2">>
      [] variant = "F64" -> <<"f", "6", "4">>

\* [-]<kind>$<decimal-or-float>: a negative value is written with a leading
\* minus and its magnitude
Literal(immediate) ==
    LET variant == immediate.variant
        size == SizeOf(variant)
        v == immediate.v
        neg == variant \notin AddrVariants /\ SignBit(v, size)
        mag == IF ~neg THEN v
               ELSE IF variant \in SignedVariants THEN NegV(v, size)
               ELSE NegFloat(v, size)
        text == IF variant \in {"F32", "F64"}
                THEN (CHOOSE f \in FloatLiterals : f.variant = variant /\ f.v = mag).text
                ELSE DecimalV(mag, size)
    IN (IF neg THEN <<"-">> ELSE <<>>) \o KindText(variant) \o <<"$">> \o text

OperandText(o) ==
    CASE o.t = "reg" -> <<"R">> \o DecimalNat(o.n)
      [] o.t = "addr" -> DecimalNat(o.n)
      [] o.t = "imm" -> Literal(o.imm)
      [] OTHER -> o.name

\* The tokens of an item, in order
ItemTokens(item) ==
    IF item.kind = "label" THEN << <<".">> \o item.name >>
    ELSE << MnemonicText(item.op) \o (IF IsSymJump(item) \/ item.op \notin JumpOps
                                      THEN <<>> ELSE <<"R">>) >>
            \o [k \in 1..Len(item.ops) |-> OperandText(item.ops[k])]

RECURSIVE JoinTokens(_, _)
JoinTokens(toks, sep) ==
    IF toks = <<>> THEN <<>>
    ELSE IF Len(toks) = 1 THEN toks[1]
    ELSE toks[1] \o sep \o JoinTokens(Tail(toks), sep)

\* The text of a source: the tokens separated by sep, then the trailing
\* whitespace given, then the NUL the caller appends (main.rs:101)
RenderSource(its, lead, sep, trail) ==
    lead \o JoinTokens(Flatten([k \in 1..Len(its) |-> ItemTokens(its[k])]), sep)
         \o trail \o <<NUL>>

----------------------------------------------------------------------------
(* The wire format of spec section 6, used to say where a source's        *)
(* instructions are expected in the byte stream.                          *)

WireOperandLen(o) ==
    IF o.t = "imm" THEN 1 + SizeOf(o.imm.variant) ELSE 1

RECURSIVE SumLens(_)
SumLens(ops) == IF ops = <<>> THEN 0 ELSE WireOperandLen(Head(ops)) + SumLens(Tail(ops))

WireLen(item) == IF item.kind = "label" THEN 0 ELSE 1 + SumLens(item.ops)

\* Byte offset of the k-th item of a source; k = Len(its)+1 is the trailing HLT
RECURSIVE WireOffset(_, _)
WireOffset(its, k) ==
    IF k <= 1 THEN 0 ELSE WireOffset(its, k - 1) + WireLen(its[k - 1])

----------------------------------------------------------------------------
(* VirtualMachine::decode_immed and ::decode: vm.rs:94-285.               *)
(* instr_mem is indexed from 0 in the code: At(mem, k) is instr_mem[k].   *)
(* ok = FALSE is the panic of an index past the end of instr_mem.         *)

At(mem, k) == mem[k + 1]

Instr(op, a, b, immediate) == [op |-> op, a |-> a, b |-> b, imm |-> immediate]

VariantOfTag(tag) ==
    CASE tag = 0 -> "U8"
      [] tag = 1 -> "I8"
      [] tag = 2 -> "U16"
      [] tag = 3 -> "I16"
      [] tag = 4 -> "U32"
      [] tag = 5 -> "I32"
      [] tag = 6 -> "U64"
      [] tag = 7 -> "I64"
      [] tag = 8 -> "F32"
      [] tag = 9 -> "F64"
      [] OTHER -> "None"

\* decode_immed called with instr_ptr = p: the tag is read at p+1 and the
\* payload from p+2; ip is instr_ptr when it returns
decode_immed(mem, p) ==
    LET ip == p + 2
        bad == [ok |-> FALSE, imm |-> ImmNone, ip |-> ip]
    IN IF ip - 1 >= Len(mem) THEN bad
       ELSE LET variant == VariantOfTag(At(mem, ip - 1))
                size == SizeOf(variant)
            IN IF variant = "None" THEN [ok |-> TRUE, imm |-> ImmNone, ip |-> ip]
               ELSE IF ip + size > Len(mem) THEN bad
               ELSE [ok |-> TRUE,
                     imm |-> Imm(variant, from_le_bytes(SubSeq(mem, ip + 1, ip + size), size)),
                     ip |-> ip + size - 1]

OpName(opcode) ==
    CASE opcode = 0 -> "NOP"
      [] opcode = 1 -> "HLT"
      [] opcode = 2 -> "INT"
      [] opcode = 3 -> "PUSH"
      [] opcode = 4 -> "PUSHR"
      [] opcode = 5 -> "POP"
      [] opcode = 6 -> "LDI"
      [] opcode = 7 -> "CPY"
      [] opcode = 8 -> "JMP"
      [] opcode = 9 -> "JE"
      [] opcode = 10 -> "JNE"
      [] opcode = 11 -> "JG"
      [] opcode = 12 -> "JL"
      [] opcode = 13 -> "CMP"
      [] opcode = 14 -> "ADD"
      [] opcode = 15 -> "SUB"
      [] opcode = 16 -> "MUL"
      [] opcode = 17 -> "DIV"
      [] opcode = 18 -> "AND"
      [] opcode = 19 -> "OR"
      [] opcode = 20 -> "XOR"
      [] opcode = 21 -> "SHR"
      [] opcode = 22 -> "SHL"
      [] opcode = 23 -> "HSTORE"
      [] opcode = 24 -> "HSTORER"
      [] opcode = 25 -> "HLOAD"
      [] opcode = 26 -> "HLOADR"
      [] OTHER -> "NOP"

\* The arms `0 =>` and `1 =>` of decode: NOP and HLT step instr_ptr by one
DecodeBare(opcode, p) == [ok |-> TRUE, instr |-> Instr(OpName(opcode), 0, 0, ImmNone), ip |-> p + 1]

\* A fallback arm that steps instr_ptr as the arms of NOP and HLT do, for
\* comparison with DecodeUnknown
DecodeUnknownStep(p) == [ok |-> TRUE, instr |-> Instr("NOP", 0, 0, ImmNone), ip |-> p + 1]

\* A fallback arm that steps instr_ptr back, so that the loop stays at the
\* byte, for comparison with DecodeUnknown
DecodeUnknownBack(p) == [ok |-> TRUE, instr |-> Instr("NOP", 0, 0, ImmNone), ip |-> p - 1]

\* The arm `_ =>` of decode: NOP, instr_ptr untouched
DecodeUnknown(p) == [ok |-> TRUE, instr |-> Instr("NOP", 0, 0, ImmNone), ip |-> p]

\* The arms with one operand byte
DecodeOne(mem, opcode, p) ==
    IF p + 1 >= Len(mem)
    THEN [ok |-> FALSE, instr |-> Instr(OpName(opcode), 0, 0, ImmNone), ip |-> p + 1]
    ELSE [ok |-> TRUE, instr |-> Instr(OpName(opcode), At(mem, p + 1), 0, ImmNone), ip |-> p + 1]

\* The arms with two register bytes
DecodeTwo(mem, opcode, p) ==
    IF p + 2 >= Len(mem)
    THEN [ok |-> FALSE, instr |-> Instr(OpName(opcode), 0, 0, ImmNone), ip |-> p + 2]
    ELSE [ok |-> TRUE,
          instr |-> Instr(OpName(opcode), At(mem, p + 1), At(mem, p + 2), ImmNone),
          ip |-> p + 2]

\* PUSH: the immediate alone
DecodePush(mem, p) ==
    LET d == decode_immed(mem, p)
    IN [ok |-> d.ok, instr |-> Instr("PUSH", 0, 0, d.imm), ip |-> d.ip]

\* LDI, SHR, SHL: a register byte, then the immediate
DecodeRegImmed(mem, opcode, p) ==
    IF p + 1 >= Len(mem)
    THEN [ok |-> FALSE, instr |-> Instr(OpName(opcode), 0, 0, ImmNone), ip |-> p + 1]
    ELSE LET d == decode_immed(mem, p + 1)
         IN [ok |-> d.ok, instr |-> Instr(OpName(opcode), At(mem, p + 1), 0, d.imm), ip |-> d.ip]

\* decode with instr_ptr = p < Len(mem): the instruction, and instr_ptr after it
decode(mem, p) ==
    LET opcode == At(mem, p)
    IN CASE opcode \in {0, 1} -> DecodeBare(opcode, p)
         [] opcode = 3 -> DecodePush(mem, p)
         [] opcode \in {6, 21, 22} -> DecodeRegImmed(mem, opcode, p)
         [] opcode \in {7} \cup (13..20) -> DecodeTwo(mem, opcode, p)
         [] opcode \in {2, 4, 5} \cup (8..12) \cup (23..26) -> DecodeOne(mem, opcode, p)
         [] OTHER -> DecodeUnknown(p)

----------------------------------------------------------------------------
(* Machine arithmetic on bit patterns: what the operators of Rust's       *)
(* integer types compute, as vm.rs:639-752 uses them.                     *)

RECURSIVE Pow2(_)
Pow2(n) == IF n = 0 THEN 1 ELSE 2 * Pow2(n - 1)

LimbBits(size) == IF size = 1 THEN 8 ELSE 16

\* The bits of a pattern, least significant first
ToBits(v, size) ==
    [k \in 1..(8 * size) |->
        (v[((k - 1) \div LimbBits(size)) + 1] \div Pow2((k - 1) % LimbBits(size))) % 2]

RECURSIVE NatOfBits(_, _, _)
NatOfBits(bs, from, n) ==
    IF n = 0 THEN 0 ELSE bs[from] + 2 * NatOfBits(bs, from + 1, n - 1)

FromBits(bs, size) ==
    [k \in 1..NLimbs(size) |-> NatOfBits(bs, (k - 1) * LimbBits(size) + 1, LimbBits(size))]

\* a < b as unsigned numbers
LtU(a, b) ==
    \E k \in 1..Len(a) : a[k] < b[k] /\ \A j \in (k + 1)..Len(a) : a[j] = b[j]

\* The carry into limb k of a + b
RECURSIVE CarryInto(_, _, _, _)
CarryInto(a, b, k, base) ==
    IF k = 1 THEN 0
    ELSE (a[k - 1] + b[k - 1] + CarryInto(a, b, k - 1, base)) \div base

\* a + b modulo 2^(8*size)
AddV(a, b, size) ==
    [k \in 1..Len(a) |-> (a[k] + b[k] + CarryInto(a, b, k, LimbBase(size))) % LimbBase(size)]

AddCarries(a, b, size) == CarryInto(a, b, Len(a) + 1, LimbBase(size)) = 1

\* a - b modulo 2^(8*size)
SubV(a, b, size) == AddV(a, NegV(b, size), size)

AbsV(v, size, signed) == IF signed /\ SignBit(v, size) THEN NegV(v, size) ELSE v

\* Column k of the schoolbook product of two byte vectors
RECURSIVE ColumnSum(_, _, _, _)
ColumnSum(x, y, k, j) ==
    IF j > Len(x) THEN 0
    ELSE (IF k + 1 - j \in 1..Len(y) THEN x[j] * y[k + 1 - j] ELSE 0)
            + ColumnSum(x, y, k, j + 1)

\* The product of two vectors of n bytes, in 2n bytes
RECURSIVE MulBytes(_, _, _, _)
MulBytes(x, y, k, carry) ==
    IF k > 2 * Len(x) THEN <<>>
    ELSE LET t == ColumnSum(x, y, k, 1) + carry
         IN <<t % 256>> \o MulBytes(x, y, k + 1, t \div 256)

ShiftIn(r, b, size) ==
    [k \in 1..Len(r) |->
        (2 * r[k] + (IF k = 1 THEN b
                     ELSE r[k - 1] \div (LimbBase(size) \div 2))) % LimbBase(size)]

SetBit(q, k, size) ==
    [q EXCEPT ![((k - 1) \div LimbBits(size)) + 1] = @ + Pow2((k - 1) % LimbBits(size))]

\* Restoring division of unsigned patterns, from bit k down (y # 0): the quotient
RECURSIVE DivFrom(_, _, _, _, _, _)
DivFrom(xbits, y, k, rem, q, size) ==
    IF k = 0 THEN q
    ELSE LET r1 == ShiftIn(rem, xbits[k], size)
         IN IF LtU(r1, y) THEN DivFrom(xbits, y, k - 1, r1, q, size)
            ELSE DivFrom(xbits, y, k - 1, SubV(r1, y, size), SetBit(q, k, size), size)

DivV(x, y, size) == DivFrom(ToBits(x, size), y, 8 * size, ZeroV(size), ZeroV(size), size)

\* a + b, a - b, a * b, a / b on one integer variant.  ok = FALSE is a panic:
\* an overflow with overflow checks on, a division by zero, MIN / -1.
IntArith(op, variant, a, b, bld) ==
    LET size == SizeOf(variant)
        signed == variant \in SignedVariants
        checked == bld = "debug"
        neg == signed /\ SignBit(a, size) # SignBit(b, size)
    IN CASE op = "ADD" ->
                LET r == AddV(a, b, size)
                    over == IF signed
                            THEN SignBit(a, size) = SignBit(b, size)
                                    /\ SignBit(r, size) # SignBit(a, size)
                            ELSE AddCarries(a, b, size)
                IN [ok |-> ~(over /\ checked), v |-> r]
         [] op = "SUB" ->
                LET r == SubV(a, b, size)
                    over == IF signed
                            THEN SignBit(a, size) # SignBit(b, size)
                                    /\ SignBit(r, size) # SignBit(a, size)
                            ELSE LtU(a, b)
                IN [ok |-> ~(over /\ checked), v |-> r]
         [] op = "MUL" ->
                LET m == MulBytes(to_le_bytes(AbsV(a, size, signed), size),
                                  to_le_bytes(AbsV(b, size, signed), size), 1, 0)
                    low == from_le_bytes(SubSeq(m, 1, size), size)
                    over == \/ \E k \in (size + 1)..(2 * size) : m[k] # 0
                            \/ signed /\ ~neg /\ SignBit(low, size)
                            \/ signed /\ neg /\ SignBit(low, size) /\ low # MinV(size)
                IN [ok |-> ~(over /\ checked), v |-> IF neg THEN NegV(low, size) ELSE low]
         [] op = "DIV" ->
                IF b = ZeroV(size) THEN [ok |-> FALSE, v |-> a]
                ELSE IF signed /\ a = MinV(size) /\ b = MaxV(size) THEN [ok |-> FALSE, v |-> a]
                ELSE LET q == DivV(AbsV(a, size, signed), AbsV(b, size, signed), size)
                     IN [ok |-> TRUE, v |-> IF neg THEN NegV(q, size) ELSE q]

RECURSIVE BitOp(_, _, _, _)
BitOp(op, x, y, n) ==
    IF n = 0 THEN 0
    ELSE (CASE op = "AND" -> (x % 2) * (y % 2)
            [] op = "OR" -> IF (x % 2) + (y % 2) > 0 THEN 1 ELSE 0
            [] op = "XOR" -> ((x % 2) + (y % 2)) % 2)
            + 2 * BitOp(op, x \div 2, y \div 2, n - 1)

\* a & b, a | b, a ^ b
BitArith(op, variant, a, b) ==
    [k \in 1..Len(a) |-> BitOp(op, a[k], b[k], LimbBits(SizeOf(variant)))]

\* a >> b and a << b, the amount b of the type of a.  ok = FALSE is the panic
\* of an amount outside 0..bits-1 with overflow checks on; without them the
\* amount is taken modulo the number of bits.
ShiftArith(op, variant, a, b, bld) ==
    LET size == SizeOf(variant)
        n == 8 * size
        x == ToBits(a, size)
        inRange == (\A k \in 2..Len(b) : b[k] = 0) /\ b[1] < n
        amt == b[1] % n
        fill == IF variant \in SignedVariants /\ SignBit(a, size) THEN 1 ELSE 0
        bs == IF op = "SHR"
              THEN [k \in 1..n |-> IF k + amt <= n THEN x[k + amt] ELSE fill]
              ELSE [k \in 1..n |-> IF k > amt THEN x[k - amt] ELSE 0]
    IN [ok |-> inRange \/ bld = "release", v |-> FromBits(bs, size)]

----------------------------------------------------------------------------
(* The derived PartialEq and PartialOrd of Immediate: vm.rs:6-19 *)

\* The order of the variants in the enum
VariantIndex(variant) ==
    CASE variant = "None" -> 0
      [] variant = "U8" -> 1
      [] variant = "I8" -> 2
      [] variant = "U16" -> 3
      [] variant = "I16" -> 4
      [] variant = "U32" -> 5
      [] variant = "I32" -> 6
      [] variant = "U64" -> 7
      [] variant = "I64" -> 8
      [] variant = "F32" -> 9
      [] variant = "F64" -> 10

IsNaN(v, variant) ==
    IF variant = "F32"
    THEN (v[2] % 32768) \div 128 = 255 /\ (v[2] % 128 # 0 \/ v[1] # 0)
    ELSE (v[4] % 32768) \div 16 = 2047
            /\ (v[4] % 16 # 0 \/ v[1] # 0 \/ v[2] # 0 \/ v[3] # 0)

IsFloatZero(v, size) == [v EXCEPT ![NLimbs(size)] = v[NLimbs(size)] % 32768] = ZeroV(size)

\* a > b on two payloads of one variant
PayloadGt(variant, a, b) ==
    LET size == SizeOf(variant)
        sa == SignBit(a, size)
        sb == SignBit(b, size)
    IN IF variant \in AddrVariants THEN LtU(b, a)
       ELSE IF variant \in SignedVariants
            THEN IF sa # sb THEN sb ELSE LtU(b, a)
       ELSE IF IsNaN(a, variant) \/ IsNaN(b, variant) THEN FALSE
       ELSE IF IsFloatZero(a, size) /\ IsFloatZero(b, size) THEN FALSE
       ELSE IF sa # sb THEN sb
       ELSE IF sa THEN LtU(a, b) ELSE LtU(b, a)

\* r1 == r2
ImmEq(r1, r2) ==
    /\ r1.variant = r2.variant
    /\ IF r1.variant \in {"F32", "F64"}
       THEN /\ ~IsNaN(r1.v, r1.variant) /\ ~IsNaN(r2.v, r2.variant)
            /\ (r1.v = r2.v
                  \/ (IsFloatZero(r1.v, SizeOf(r1.variant))
                        /\ IsFloatZero(r2.v, SizeOf(r2.variant))))
       ELSE r1.v = r2.v

\* r1 > r2: the variants are compared first, in the order of the enum
ImmGt(r1, r2) ==
    IF r1.variant # r2.variant
    THEN VariantIndex(r1.variant) > VariantIndex(r2.variant)
    ELSE IF r1.variant = "None" THEN FALSE
    ELSE PayloadGt(r1.variant, r1.v, r2.v)

----------------------------------------------------------------------------
(* VirtualMachine::execute: vm.rs:287-776.                                *)
(* m is the machine: [instr_ptr, virt_mem, stack, reg, flag_eq, flag_gt,  *)
(* is_exe, stdout, stderr, written].  The result is [st, m]: st = "ok",   *)
(* "panic" (panic!, a failed index, a checked overflow), "exit"           *)
(* (process::exit) or "beyond" (float arithmetic and allocations larger   *)
(* than MaxAlloc, which the model does not follow); m is the machine as   *)
(* the instruction leaves it, also when it panics half way.               *)

NumRegs == 16

MaxAlloc == 3

Ok(m) == [st |-> "ok", m |-> m]

Panic(m) == [st |-> "panic", m |-> m]

Push(m, x) == [m EXCEPT !.stack = Append(m.stack, x)]

Pop(m) == [m EXCEPT !.stack = Front(m.stack)]

HeapAt(m, a) == m.virt_mem[a + 1]

\* A pop that takes the signed integers for addresses too, for comparison
\* with PopAddr
PopAddrAnyInt(m) ==
    IF m.stack = <<>> THEN [ok |-> FALSE, m |-> m, v |-> <<>>]
    ELSE LET top == Last(m.stack)
         IN [ok |-> top.variant \in IntVariants, m |-> Pop(m), v |-> top.v]

\* `match self.stack.pop()` of the interrupts: an address-kind value or a panic.
\* idx(limit) is the value as an index when it is below limit, -1 otherwise.
PopAddr(m) ==
    IF m.stack = <<>> THEN [ok |-> FALSE, m |-> m, v |-> <<>>]
    ELSE LET top == Last(m.stack)
         IN [ok |-> top.variant \in AddrVariants, m |-> Pop(m), v |-> top.v]

\* char::from_u32 accepts the scalar values: below 0x110000, no surrogate
IsScalar(v) == (v[2] = 0 /\ (v[1] < 55296 \/ v[1] > 57343)) \/ v[2] \in 1..16

\* A loop that takes a free cell for the end of the string too, for comparison
\* with ReadStr
RECURSIVE ReadStrToFree(_, _, _)
ReadStrToFree(heap, a, acc) ==
    IF a < 0 \/ a >= Len(heap) THEN [ok |-> FALSE, text |-> acc]
    ELSE LET cell == heap[a + 1]
         IN IF cell = U32(0) \/ cell = ImmNone THEN [ok |-> TRUE, text |-> acc]
            ELSE IF cell.variant # "U32" \/ ~IsScalar(cell.v) THEN [ok |-> FALSE, text |-> acc]
            ELSE ReadStrToFree(heap, a + 1, Append(acc, cell.v))

\* The loop `while self.virt_mem[addr] != Immediate::U32(0)` of the interrupts
\* that read a string: ok = FALSE when an index leaves the heap, a cell is no
\* U32 or holds no scalar value
RECURSIVE ReadStr(_, _, _)
ReadStr(heap, a, acc) ==
    IF a < 0 \/ a >= Len(heap) THEN [ok |-> FALSE, text |-> acc]
    ELSE LET cell == heap[a + 1]
         IN IF cell = U32(0) THEN [ok |-> TRUE, text |-> acc]
            ELSE IF cell.variant # "U32" \/ ~IsScalar(cell.v) THEN [ok |-> FALSE, text |-> acc]
            ELSE ReadStr(heap, a + 1, Append(acc, cell.v))

\* Pop an address and read the string it points to
PopStr(m) ==
    LET p == PopAddr(m)
        r == ReadStr(p.m.virt_mem, AsIndexBelow(p.v, Len(p.m.virt_mem)), <<>>)
    IN IF ~p.ok THEN [ok |-> FALSE, m |-> p.m, text |-> <<>>]
       ELSE [ok |-> r.ok, m |-> p.m, text |-> r.text]

\* curr_free when the scan of HEAP_ALLOC has looked at cell k (0-based)
RECURSIVE CurrFree(_, _)
CurrFree(heap, k) ==
    IF k < 0 \/ heap[k + 1] # ImmNone THEN 0 ELSE 1 + CurrFree(heap, k - 1)

\* The cells at which the scan of HEAP_ALLOC would break
FitsAt(heap, to_alloc) ==
    {k \in 0..(Len(heap) - 1) : heap[k + 1] = ImmNone /\ CurrFree(heap, k) >= to_alloc}

Min(S) == CHOOSE x \in S : \A y \in S : x <= y

\* An allocator whose growth path answers the first cell it appended, for
\* comparison with heap_alloc
HeapAllocAtEnd(m, to_alloc, bld) ==
    LET fits == FitsAt(m.virt_mem, to_alloc)
        addr == (Min(fits) - to_alloc) + 1
        zeroed == [k \in 1..Len(m.virt_mem) |->
                     IF k - 1 \in addr..(addr + to_alloc - 1) THEN U8(0) ELSE m.virt_mem[k]]
        grown == m.virt_mem \o [k \in 1..to_alloc |-> U8(0)]
    IN IF fits # {}
       THEN Ok(Push([m EXCEPT !.virt_mem = zeroed], U64(addr)))
       ELSE Ok(Push([m EXCEPT !.virt_mem = grown], U64(Len(m.virt_mem))))

\* A scan that answers the index at which the run is long enough, not the one
\* at which it began, for comparison with heap_alloc
HeapAllocAtRunEnd(m, to_alloc, bld) ==
    LET fits == FitsAt(m.virt_mem, to_alloc)
        addr == Min(fits)
        zeroed == [k \in 1..Len(m.virt_mem) |->
                     IF k - 1 \in addr..(addr + to_alloc - 1) THEN U8(0) ELSE m.virt_mem[k]]
        grown == m.virt_mem \o [k \in 1..to_alloc |-> U8(0)]
    IN IF fits # {}
       THEN Ok(Push([m EXCEPT !.virt_mem = zeroed], U64(addr)))
       ELSE Ok(Push([m EXCEPT !.virt_mem = grown], U64(Len(m.virt_mem) - 1)))

\* INT 1 after the length was popped: vm.rs:370-403
heap_alloc(m, to_alloc, bld) ==
    LET fits == FitsAt(m.virt_mem, to_alloc)
        addr == (Min(fits) - to_alloc) + 1
        zeroed == [k \in 1..Len(m.virt_mem) |->
                     IF k - 1 \in addr..(addr + to_alloc - 1) THEN U8(0) ELSE m.virt_mem[k]]
        grown == m.virt_mem \o [k \in 1..to_alloc |-> U8(0)]
    IN IF fits # {}
       THEN Ok(Push([m EXCEPT !.virt_mem = zeroed], U64(addr)))
       ELSE IF Len(m.virt_mem) = 0
            THEN IF bld = "debug" THEN Panic(m)
                 ELSE Ok(Push([m EXCEPT !.virt_mem = grown], Imm("U64", MaxV(8))))
       ELSE Ok(Push([m EXCEPT !.virt_mem = grown], U64(Len(m.virt_mem) - 1)))

\* The length popped by HEAP_ALLOC as a number, -1 when it exceeds MaxAlloc
AllocLen(v) == AsIndexBelow(v, MaxAlloc + 1)

IntWrite(m) ==
    LET s == PopStr(m)
    IN IF ~s.ok THEN Panic(s.m)
       ELSE Ok([s.m EXCEPT !.stdout = s.m.stdout \o s.text])

IntHeapAlloc(m, bld) ==
    LET p == PopAddr(m)
    IN IF ~p.ok THEN Panic(p.m)
       ELSE IF AllocLen(p.v) < 0 THEN [st |-> "beyond", m |-> p.m]
       ELSE heap_alloc(p.m, AllocLen(p.v), bld)

\* The success arm of READ_FILE for a file holding `text`: vm.rs:458-471
ReadFileOk(m, text, bld) ==
    LET len == Len(text)
        \* U64(len) is pushed and INT 1 pops it again
        a == heap_alloc(m, len, bld)
        buf_start == AsIndexBelow(Last(a.m.stack).v, Len(a.m.virt_mem))
        m1 == Pop(a.m)
        copied == [k \in 1..Len(m1.virt_mem) |->
                     IF k - 1 \in buf_start..(buf_start + len - 1)
                     THEN Imm("U32", text[k - buf_start]) ELSE m1.virt_mem[k]]
        ended == [copied EXCEPT ![buf_start + len + 1] = U32(0)]
    IN IF a.st # "ok" THEN a
       ELSE IF buf_start < 0 \/ buf_start + len >= Len(m1.virt_mem)
            THEN Panic([m1 EXCEPT !.virt_mem =
                          [k \in 1..Len(m1.virt_mem) |->
                              IF buf_start >= 0 /\ k - 1 \in buf_start..(buf_start + len - 1)
                              THEN Imm("U32", text[k - buf_start]) ELSE m1.virt_mem[k]]])
       ELSE Ok([m1 EXCEPT !.virt_mem = ended,
                          !.stack = m1.stack \o <<U64(buf_start), U8(1)>>])

IntReadFile(m, host, bld) ==
    LET s == PopStr(m)
    IN IF ~s.ok THEN Panic(s.m)
       ELSE IF host.read.ok THEN ReadFileOk(s.m, host.read.text, bld)
       ELSE Ok([s.m EXCEPT !.stack = s.m.stack \o <<U64(0), U8(0)>>])

IntWriteFile(m, host) ==
    LET buf == PopStr(m)
        path == PopStr(buf.m)
    IN IF ~buf.ok THEN Panic(buf.m)
       ELSE IF ~path.ok THEN Panic(path.m)
       ELSE IF host.write
            THEN Ok(Push([path.m EXCEPT !.written =
                            Append(path.m.written, [path |-> path.text, data |-> buf.text])],
                         U8(1)))
       ELSE Ok(Push(path.m, U8(0)))

IntPanic(m) ==
    LET s == PopStr(m)
    IN IF ~s.ok THEN Panic(s.m)
       ELSE [st |-> "exit", m |-> [s.m EXCEPT !.stderr = s.m.stderr \o s.text]]

\* A dispatch that pops the argument before it looks at the number, for
\* comparison with Interrupt
InterruptPopFirst(m, n, host, bld) ==
    CASE n = 0 -> IntWrite(m)
      [] n = 1 -> IntHeapAlloc(m, bld)
      [] n = 2 -> IntReadFile(m, host, bld)
      [] n = 3 -> IntWriteFile(m, host)
      [] n = 4 -> IntPanic(m)
      [] OTHER -> Panic(PopAddr(m).m)

\* INT: the match on the number, vm.rs:291-611
Interrupt(m, n, host, bld) ==
    CASE n = 0 -> IntWrite(m)
      [] n = 1 -> IntHeapAlloc(m, bld)
      [] n = 2 -> IntReadFile(m, host, bld)
      [] n = 3 -> IntWriteFile(m, host)
      [] n = 4 -> IntPanic(m)
      [] OTHER -> Panic(m)

\* self.reg[r]: an index outside the 16 slots panics
RegOk(r) == r \in 0..(NumRegs - 1)

\* A jump that keeps the address as it is, for comparison with Jump
JumpNoDec(m, addr, bld) == Ok([m EXCEPT !.instr_ptr = addr])

\* A jump that takes the comparison with it: both flags are cleared, for
\* comparison with Jump
JumpClearing(m, addr, bld) ==
    IF addr = 0
    THEN IF bld = "debug" THEN Panic(m) ELSE Ok([m EXCEPT !.instr_ptr = -1])
    ELSE Ok([m EXCEPT !.instr_ptr = addr - 1, !.flag_eq = FALSE, !.flag_gt = FALSE])

\* JMP: self.instr_ptr = addr - 1.  With addr = 0 the subtraction overflows:
\* a panic with overflow checks, usize::MAX without (held as -1, so that the
\* wrapping `instr_ptr += 1` of the loop gives 0)
Jump(m, addr, bld) ==
    IF addr = 0 /\ bld = "debug" THEN Panic(m)
    ELSE Ok([m EXCEPT !.instr_ptr = addr - 1])

\* Jumps of which JL asks for a strict less: it is not taken on equal values,
\* for comparison with Taken
TakenStrict(op, eq, gt) ==
    CASE op = "JMP" -> TRUE
      [] op = "JE" -> eq
      [] op = "JNE" -> ~eq
      [] op = "JG" -> gt
      [] op = "JL" -> ~gt /\ ~eq
      [] OTHER -> FALSE

\* The flag each jump looks at: vm.rs:622-638
Taken(op, eq, gt) ==
    CASE op = "JMP" -> TRUE
      [] op = "JE" -> eq
      [] op = "JNE" -> ~eq
      [] op = "JG" -> gt
      [] op = "JL" -> ~gt
      [] OTHER -> FALSE

\* ADD, SUB, MUL, DIV on two registers: vm.rs:645-696
ExecArith(m, op, ra, rb, bld) ==
    IF ~RegOk(ra) \/ ~RegOk(rb) THEN Panic(m)
    ELSE LET x == m.reg[ra]
             y == m.reg[rb]
             \* the U8 arm of MUL computes a-b (vm.rs:676)
             real == IF op = "MUL" /\ x.variant = "U8" THEN "SUB" ELSE op
             r == IntArith(real, x.variant, x.v, y.v, bld)
         IN IF x.variant # y.variant \/ x.variant = "None" THEN Panic(m)
            ELSE IF x.variant \in {"F32", "F64"} THEN [st |-> "beyond", m |-> m]
            ELSE IF ~r.ok THEN Panic(m)
            ELSE Ok(Push(m, Imm(x.variant, r.v)))

\* AND, OR, XOR on two registers: vm.rs:697-730
ExecBitwise(m, op, ra, rb) ==
    IF ~RegOk(ra) \/ ~RegOk(rb) THEN Panic(m)
    ELSE LET x == m.reg[ra]
             y == m.reg[rb]
         IN IF x.variant # y.variant \/ x.variant \notin IntVariants THEN Panic(m)
            ELSE Ok(Push(m, Imm(x.variant, BitArith(op, x.variant, x.v, y.v))))

\* SHR, SHL of a register by an immediate: vm.rs:731-752
ExecShift(m, op, r, immediate, bld) ==
    IF ~RegOk(r) THEN Panic(m)
    ELSE LET x == m.reg[r]
             sh == ShiftArith(op, x.variant, x.v, immediate.v, bld)
         IN IF x.variant # immediate.variant \/ x.variant \notin IntVariants THEN Panic(m)
            ELSE IF ~sh.ok THEN Panic(m)
            ELSE Ok(Push(m, Imm(x.variant, sh.v)))

\* A store that lengthens the heap up to the address it is given, for
\* comparison with ExecHStore
ExecHStoreGrow(m, addr) ==
    IF m.stack = <<>> THEN Panic(m)
    ELSE LET room == [k \in 1..(IF addr >= Len(m.virt_mem) THEN 1 ELSE 0) |-> ImmNone]
             at == IF addr >= Len(m.virt_mem) THEN Len(m.virt_mem) + 1 ELSE addr + 1
         IN Ok([Pop(m) EXCEPT !.virt_mem = [(m.virt_mem \o room) EXCEPT ![at] = Last(m.stack)]])

\* HSTORE: the value is popped first, then the cell indexed
ExecHStore(m, addr) ==
    IF m.stack = <<>> THEN Panic(m)
    ELSE IF addr >= Len(m.virt_mem) THEN Panic(Pop(m))
    ELSE Ok([Pop(m) EXCEPT !.virt_mem[addr + 1] = Last(m.stack)])

\* HSTORER with a fault seeded: the register's number is taken for the address
ExecHStoreRByNumber(m, r) ==
    IF m.stack = <<>> THEN Panic(m)
    ELSE IF r >= Len(m.virt_mem) THEN Panic(Pop(m))
    ELSE Ok([Pop(m) EXCEPT !.virt_mem[r + 1] = Last(m.stack)])

\* HSTORER: the value is popped first, then the register read as an address
ExecHStoreR(m, r) ==
    IF m.stack = <<>> THEN Panic(m)
    ELSE IF ~RegOk(r) THEN Panic(Pop(m))
    ELSE IF m.reg[r].variant \notin AddrVariants THEN Panic(Pop(m))
    ELSE LET addr == AsIndexBelow(m.reg[r].v, Len(m.virt_mem))
         IN IF addr < 0 THEN Panic(Pop(m))
            ELSE Ok([Pop(m) EXCEPT !.virt_mem[addr + 1] = Last(m.stack)])

ExecHLoad(m, addr) ==
    IF addr >= Len(m.virt_mem) THEN Panic(m) ELSE Ok(Push(m, HeapAt(m, addr)))

ExecHLoadR(m, r) ==
    IF ~RegOk(r) THEN Panic(m)
    ELSE IF m.reg[r].variant \notin AddrVariants THEN Panic(m)
    ELSE LET addr == AsIndexBelow(m.reg[r].v, Len(m.virt_mem))
         IN IF addr < 0 THEN Panic(m) ELSE Ok(Push(m, HeapAt(m, addr)))

ExecPushR(m, r) == IF ~RegOk(r) THEN Panic(m) ELSE Ok(Push(m, m.reg[r]))

\* POP with a fault seeded: the value is read but stays on the stack
ExecPopPeek(m, r) ==
    IF m.stack = <<>> THEN Panic(m)
    ELSE IF ~RegOk(r) THEN Panic(m)
    ELSE Ok([m EXCEPT !.reg[r] = Last(m.stack)])

\* A POP that takes an empty stack for a stack of None, for comparison with
\* ExecPop
ExecPopOrNone(m, r) ==
    IF ~RegOk(r) THEN Panic(m)
    ELSE IF m.stack = <<>> THEN Ok([m EXCEPT !.reg[r] = ImmNone])
    ELSE Ok([Pop(m) EXCEPT !.reg[r] = Last(m.stack)])

\* POP: the value is popped first, then the register indexed
ExecPop(m, r) ==
    IF m.stack = <<>> THEN Panic(m)
    ELSE IF ~RegOk(r) THEN Panic(Pop(m))
    ELSE Ok([Pop(m) EXCEPT !.reg[r] = Last(m.stack)])

\* LDI with a fault seeded: the register byte is reduced modulo the 16 slots
ExecLdiWrap(m, r, immediate) == Ok([m EXCEPT !.reg[r % NumRegs] = immediate])

ExecLdi(m, r, immediate) ==
    IF ~RegOk(r) THEN Panic(m) ELSE Ok([m EXCEPT !.reg[r] = immediate])

ExecCpy(m, ra, rb) ==
    IF ~RegOk(ra) \/ ~RegOk(rb) THEN Panic(m) ELSE Ok([m EXCEPT !.reg[rb] = m.reg[ra]])

ExecCmp(m, ra, rb) ==
    IF ~RegOk(ra) \/ ~RegOk(rb) THEN Panic(m)
    ELSE Ok([m EXCEPT !.flag_eq = ImmEq(m.reg[ra], m.reg[rb]),
                      !.flag_gt = ImmGt(m.reg[ra], m.reg[rb])])

\* An arm of HLT that leaves the latch as it is, for comparison with ExecHlt
ExecHltLatchKept(m) == Ok(m)

\* HLT: self.is_exe = false
ExecHlt(m) == Ok([m EXCEPT !.is_exe = FALSE])

execute(m, instr, host, bld) ==
    LET op == instr.op
    IN CASE op = "NOP" -> Ok(m)
         [] op = "HLT" -> ExecHlt(m)
         [] op = "INT" -> Interrupt(m, instr.a, host, bld)
         [] op = "PUSH" -> Ok(Push(m, instr.imm))
         [] op = "PUSHR" -> ExecPushR(m, instr.a)
         [] op = "POP" -> ExecPop(m, instr.a)
         [] op = "LDI" -> ExecLdi(m, instr.a, instr.imm)
         [] op = "CPY" -> ExecCpy(m, instr.a, instr.b)
         [] op \in JumpOps -> IF Taken(op, m.flag_eq, m.flag_gt)
                               THEN Jump(m, instr.a, bld) ELSE Ok(m)
         [] op = "CMP" -> ExecCmp(m, instr.a, instr.b)
         [] op \in {"ADD", "SUB", "MUL", "DIV"} -> ExecArith(m, op, instr.a, instr.b, bld)
         [] op \in {"AND", "OR", "XOR"} -> ExecBitwise(m, op, instr.a, instr.b)
         [] op \in {"SHR", "SHL"} -> ExecShift(m, op, instr.a, instr.imm, bld)
         [] op = "HSTORE" -> ExecHStore(m, instr.a)
         [] op = "HSTORER" -> ExecHStoreR(m, instr.a)
         [] op = "HLOAD" -> ExecHLoad(m, instr.a)
         [] op = "HLOADR" -> ExecHLoadR(m, instr.a)

----------------------------------------------------------------------------
(* VirtualMachine::new and ::exec: vm.rs:66-92                            *)

\* Heap cells VirtualMachine::new is given (heap_max)
HeapMax == 2

\* Iterations of the main loop the model follows
MaxSteps == 6

\* Calls of exec() the model makes on one machine
MaxCalls == 2

\* Steps of the main loop the history keeps
HistLen == 3

\* The machine as a record, and the part of it the history snapshots
Machine ==
    [instr_ptr |-> instr_ptr, virt_mem |-> virt_mem, stack |-> stack, reg |-> reg,
     flag_eq |-> flag_eq, flag_gt |-> flag_gt, is_exe |-> is_exe,
     stdout |-> stdout, stderr |-> stderr, written |-> written]

Snap(m) ==
    [stack |-> m.stack, reg |-> m.reg, virt_mem |-> m.virt_mem,
     flag_eq |-> m.flag_eq, flag_gt |-> m.flag_gt]

\* What the host may answer to the interrupts that ask it something
FileTexts == {<<>>, << <<65, 0>> >>}

Hosts ==
    {[read |-> [ok |-> o, text |-> t], write |-> w] :
        o \in BOOLEAN, t \in FileTexts, w \in BOOLEAN}

NoHost == [read |-> [ok |-> FALSE, text |-> <<>>], write |-> FALSE]

HostsFor(instr) ==
    IF instr.op = "INT" /\ instr.a = 2 THEN {h \in Hosts : ~h.write /\ (h.read.ok \/ h.read.text = <<>>)}
    ELSE IF instr.op = "INT" /\ instr.a = 3 THEN {h \in Hosts : ~h.read.ok /\ h.read.text = <<>>}
    ELSE {NoHost}

KeepLast(s, n) == IF Len(s) <= n THEN s ELSE SubSeq(s, Len(s) - n + 1, Len(s))

\* VirtualMachine::new(code, heap_max)
NewVM(code, heap_max) ==
    /\ instr_ptr' = 0
    /\ instr_mem' = code
    /\ virt_mem' = [k \in 1..heap_max |-> ImmNone]
    /\ stack' = <<>>
    /\ reg' = [r \in 0..(NumRegs - 1) |-> U8(0)]
    /\ flag_eq' = FALSE
    /\ flag_gt' = FALSE
    /\ is_exe' = FALSE

\* The machine after a step of the loop
SetMachine(m) ==
    /\ virt_mem' = m.virt_mem
    /\ stack' = m.stack
    /\ reg' = m.reg
    /\ flag_eq' = m.flag_eq
    /\ flag_gt' = m.flag_gt
    /\ is_exe' = m.is_exe
    /\ stdout' = m.stdout
    /\ stderr' = m.stderr
    /\ written' = m.written

\* exec() is called: the latch check and `self.is_exe = true` (vm.rs:81-85)
ExecCall ==
    /\ vpc \in {"new", "returned"} /\ calls < MaxCalls
    /\ calls' = calls + 1
    /\ IF is_exe
       THEN /\ vpc' = "returned"
            /\ returns' = returns + 1
            /\ UNCHANGED is_exe
       ELSE /\ vpc' = "running"
            /\ is_exe' = TRUE
            /\ UNCHANGED returns
    /\ UNCHANGED <<asmVars, envVars, instr_ptr, instr_mem, virt_mem, stack, reg,
                   flag_eq, flag_gt, items, decoded, hist, steps>>

\* One iteration of the loop of exec(): decode, execute, instr_ptr += 1
Iterate ==
    /\ vpc = "running" /\ instr_ptr < Len(instr_mem) /\ is_exe /\ steps < MaxSteps
    /\ steps' = steps + 1
    /\ LET d == decode(instr_mem, instr_ptr)
       IN IF ~d.ok
          THEN /\ vpc' = "panicked"
               /\ instr_ptr' = d.ip
               /\ hist' = KeepLast(Append(hist,
                              [at |-> instr_ptr, instr |-> d.instr, st |-> "nodecode",
                               pre |-> Snap(Machine), post |-> Snap(Machine), next |-> d.ip,
                               host |-> NoHost]),
                              HistLen)
               /\ UNCHANGED <<virt_mem, stack, reg, flag_eq, flag_gt, is_exe, envVars>>
          ELSE \E host \in HostsFor(d.instr) :
                 LET r == execute([Machine EXCEPT !.instr_ptr = d.ip], d.instr, host, build)
                     next == IF r.st = "ok" THEN r.m.instr_ptr + 1 ELSE r.m.instr_ptr
                 IN /\ SetMachine(r.m)
                    /\ instr_ptr' = next
                    /\ vpc' = CASE r.st = "ok" -> "running"
                                [] r.st = "panic" -> "panicked"
                                [] r.st = "exit" -> "exited"
                                [] OTHER -> "beyond"
                    /\ hist' = KeepLast(Append(hist,
                                   [at |-> instr_ptr, instr |-> d.instr, st |-> r.st,
                                    pre |-> Snap(Machine), post |-> Snap(r.m), next |-> next,
                                    host |-> host]),
                                   HistLen)
                    /\ UNCHANGED build
    /\ UNCHANGED <<asmVars, instr_mem, items, decoded, calls, returns>>

\* The loop condition fails and exec() returns
Return ==
    /\ vpc = "running" /\ ~(instr_ptr < Len(instr_mem) /\ is_exe)
    /\ vpc' = "returned"
    /\ returns' = returns + 1
    /\ UNCHANGED <<asmVars, envVars, instr_ptr, instr_mem, virt_mem, stack, reg,
                   flag_eq, flag_gt, is_exe, items, decoded, hist, calls, steps>>

\* The assembled bytes are given to a new machine
Load ==
    /\ apc = "done" /\ vpc = "none"
    /\ NewVM(machine_c, HeapMax)
    /\ vpc' = "new"
    /\ UNCHANGED <<asmVars, envVars, histVars>>

\* The same, for a dry run: the loop of exec() with decode alone
DryLoad ==
    /\ apc = "done" /\ vpc = "none"
    /\ NewVM(machine_c, HeapMax)
    /\ vpc' = "dry"
    /\ UNCHANGED <<asmVars, envVars, histVars>>

DryStep ==
    /\ vpc = "dry" /\ instr_ptr < Len(instr_mem)
    /\ LET d == decode(instr_mem, instr_ptr)
       IN IF d.ok
          THEN /\ decoded' = Append(decoded, [at |-> instr_ptr, instr |-> d.instr])
               /\ instr_ptr' = d.ip + 1
               /\ UNCHANGED vpc
          ELSE /\ vpc' = "panicked"
               /\ instr_ptr' = d.ip
               /\ UNCHANGED decoded
    /\ UNCHANGED <<asmVars, envVars, instr_mem, virt_mem, stack, reg, flag_eq, flag_gt,
                   is_exe, items, hist, calls, returns, steps>>

DryEnd ==
    /\ vpc = "dry" /\ instr_ptr >= Len(instr_mem)
    /\ vpc' = "returned"
    /\ UNCHANGED <<asmVars, envVars, instr_ptr, instr_mem, virt_mem, stack, reg, flag_eq,
                   flag_gt, is_exe, histVars>>

----------------------------------------------------------------------------
(* Initial states and specifications                                      *)

Builds == {"debug", "release"}

\* No assembler at work
AsmIdle ==
    /\ src = <<NUL>> /\ i = 0 /\ ch = NUL /\ bit = 0 /\ machine_c = <<>>
    /\ lbls = {} /\ lbl_replaces = <<>> /\ apc = "idle" /\ patch_k = 0

\* Assembler::new(src): assembler.rs:53-63
AsmNew(text) ==
    /\ src = text /\ i = 0 /\ ch = text[1] /\ bit = 0 /\ machine_c = <<>>
    /\ lbls = {} /\ lbl_replaces = <<>> /\ patch_k = 0
    /\ apc = IF text[1] = NUL THEN "patch" ELSE "emit"

EnvInit == build \in Builds /\ stdout = <<>> /\ stderr = <<>> /\ written = <<>>

HistInit(its) ==
    /\ items = its /\ decoded = <<>> /\ hist = <<>>
    /\ calls = 0 /\ returns = 0 /\ steps = 0

\* The machine VirtualMachine::new(code, heap_max) returns
VMFresh(code, heap_max) ==
    /\ instr_ptr = 0
    /\ instr_mem = code
    /\ virt_mem = [k \in 1..heap_max |-> ImmNone]
    /\ stack = <<>>
    /\ reg = [r \in 0..(NumRegs - 1) |-> U8(0)]
    /\ flag_eq = FALSE
    /\ flag_gt = FALSE
    /\ is_exe = FALSE

\* ---- The interpreter on any byte vector

\* Bytes the programs are made of: NOP, HLT, PUSH, PUSHR, JMP, no opcode
ProgBytes == {0, 1, 3, 4, 8, 255}

\* Length of the byte vectors
MaxBytes == 4

InitVM ==
    /\ AsmIdle /\ EnvInit /\ HistInit(<<>>)
    /\ \E code \in SeqsUpTo(ProgBytes, MaxBytes) : VMFresh(code, HeapMax)
    /\ vpc = "new"

NextVM == ExecCall \/ Iterate \/ Return

SpecVM == InitVM /\ [][NextVM]_vars

\* C2: whenever exec() has returned normally the execution latch is false,
\* whether the loop ended by HLT or by instr_ptr leaving instr_mem.
\* (Violated: the latch is cleared by HLT alone, vm.rs:290; a loop that ends
\* because instr_ptr >= instr_mem.len() returns with is_exe still true.)
C2_LatchFalseAfterReturn == vpc = "returned" => ~is_exe

\* C3: once exec() has been called and has returned, a further call decodes and
\* executes nothing and leaves instr_ptr, stack, registers, heap and flags as
\* they are.  (Violated: after HLT the latch is false, so a second exec() sets
\* it again and runs the loop on from the byte after the skipped one.)
C3_SecondExecIsNoOp ==
    [][returns >= 1 =>
         /\ steps' = steps
         /\ UNCHANGED <<instr_ptr, stack, reg, virt_mem, flag_eq, flag_gt>>]_vars

\* ---- The interpreter on programs made of whole instructions

\* PUSH U8(7); PUSH I16(-2); PUSH with the tag 255 and one more byte;
\* POP R1; POP R15; LDI R2 U8(1); LDI R2 U64(2); LDI R2 I8(1);
\* LDI R15 U16(0); HSTORER R2; HSTORER R15
StoreMenu ==
    { <<3, 0, 7>>, <<3, 3, 254, 255>>, <<3, 255, 0>>,
      <<5, 1>>, <<5, 15>>,
      <<6, 2, 0, 1>>, <<6, 2, 6, 2, 0, 0, 0, 0, 0, 0, 0>>, <<6, 2, 1, 1>>,
      <<6, 15, 2, 0, 0>>, <<24, 2>>, <<24, 15>> }

\* Instructions of a program
MaxProg == 3

\* Opcodes with one register byte, with two, and with a register and an immediate
OneRegOps == {4, 5, 24, 26}

TwoRegOps == {7} \cup (13..20)

RegImmedOps == {6, 21, 22}

\* Register bytes: the first and last slot, the first byte past them, the last byte
RegBytes == {0, 15, 16, 255}

RegInstrs ==
    {<<op, r>> : op \in OneRegOps, r \in RegBytes}
        \cup {<<op, a, b>> : op \in TwoRegOps, a \in RegBytes, b \in RegBytes}
        \cup {<<op, r, 0, 1>> : op \in RegImmedOps, r \in RegBytes}

\* What may run before one of RegInstrs: nothing, PUSH U8(7), LDI R15 U8(1)
RegPrefixes == {<<>>, <<3, 0, 7>>, <<6, 15, 0, 1>>}

OpsPrograms ==
    {Flatten(p) : p \in SeqsUpTo(StoreMenu, MaxProg)}
        \cup {pre \o ins : pre \in RegPrefixes, ins \in RegInstrs}

InitOps ==
    /\ AsmIdle /\ EnvInit /\ HistInit(<<>>)
    /\ \E code \in OpsPrograms : VMFresh(code, HeapMax)
    /\ vpc = "new"

SpecOps == InitOps /\ [][NextVM]_vars

\* Two steps of the history that ran one right after the other
Consecutive(a, b) == a.st = "ok" /\ b.at = a.next

\* C8: PUSH imm (a valid tag) immediately followed by POP r, r in 0..15,
\* leaves register r equal to imm, the stack as deep as before the PUSH, and
\* every other register, the heap and the flags unchanged.
C8_PushThenPop ==
    \A k \in 1..(Len(hist) - 1) :
        LET a == hist[k]
            b == hist[k + 1]
        IN (/\ Consecutive(a, b)
            /\ a.instr.op = "PUSH" /\ a.instr.imm # ImmNone
            /\ b.instr.op = "POP" /\ b.st # "nodecode" /\ RegOk(b.instr.a))
           => /\ b.st = "ok"
              /\ b.post.reg[b.instr.a] = a.instr.imm
              /\ Len(b.post.stack) = Len(a.pre.stack)
              /\ \A r \in 0..(NumRegs - 1) : r # b.instr.a => b.post.reg[r] = a.pre.reg[r]
              /\ b.post.virt_mem = a.pre.virt_mem
              /\ b.post.flag_eq = a.pre.flag_eq /\ b.post.flag_gt = a.pre.flag_gt

C8_Witness ==
    /\ Len(hist) >= 2
    /\ LET a == hist[Len(hist) - 1]
           b == hist[Len(hist)]
       IN /\ Consecutive(a, b)
          /\ a.instr.op = "PUSH" /\ a.instr.imm = ImmOf("I16", 65534)
          /\ a.pre.stack # <<>>
          /\ b.instr.op = "POP" /\ b.instr.a = 15 /\ b.st = "ok"
          /\ reg[15] = ImmOf("I16", 65534)

\* C9: after PUSH v, LDI r imm, HSTORER r, with imm of an address kind and its
\* value below the heap length: heap[value of imm] = v, v is off the stack
\* again, and every other heap cell is unchanged.
C9_PushLdiStore ==
    \A k \in 1..(Len(hist) - 2) :
        LET a == hist[k]
            b == hist[k + 1]
            c == hist[k + 2]
            addr == AsIndexBelow(b.instr.imm.v, Len(a.pre.virt_mem))
        IN (/\ Consecutive(a, b) /\ Consecutive(b, c)
            /\ a.instr.op = "PUSH"
            /\ b.instr.op = "LDI" /\ b.instr.imm.variant \in AddrVariants /\ addr >= 0
            /\ c.instr.op = "HSTORER" /\ c.st # "nodecode" /\ c.instr.a = b.instr.a)
           => /\ c.st = "ok"
              /\ c.post.virt_mem[addr + 1] = a.instr.imm
              /\ c.post.stack = a.pre.stack
              /\ Len(c.post.virt_mem) = Len(a.pre.virt_mem)
              /\ \A j \in 1..Len(a.pre.virt_mem) :
                    j # addr + 1 => c.post.virt_mem[j] = a.pre.virt_mem[j]

C9_Witness ==
    /\ Len(hist) >= 3
    /\ LET a == hist[Len(hist) - 2]
           b == hist[Len(hist) - 1]
           c == hist[Len(hist)]
       IN /\ Consecutive(a, b) /\ Consecutive(b, c)
          /\ a.instr.op = "PUSH" /\ a.instr.imm = U8(7)
          /\ b.instr.op = "LDI" /\ b.instr.a = 2 /\ b.instr.imm = U8(1)
          /\ c.instr.op = "HSTORER" /\ c.instr.a = 2 /\ c.st = "ok"
          /\ virt_mem[2] = U8(7) /\ virt_mem[1] = ImmNone

\* The register bytes of a decoded instruction
RegOperands(instr) ==
    CASE instr.op \in {"PUSHR", "POP", "LDI", "SHR", "SHL", "HSTORER", "HLOADR"} -> {instr.a}
      [] instr.op \in {"CPY", "CMP", "ADD", "SUB", "MUL", "DIV", "AND", "OR", "XOR"} ->
            {instr.a, instr.b}
      [] OTHER -> {}

\* C10: the register file has 16 slots in every state, each U8(0) at first; an
\* instruction with a register byte in 16..255 is fatal, writes no slot and
\* leaves the number of slots alone.
C10_SixteenRegisters ==
    /\ DOMAIN reg = 0..15
    /\ (vpc = "new" /\ calls = 0) => \A r \in 0..15 : reg[r] = U8(0)
    /\ \A k \in 1..Len(hist) :
          LET e == hist[k]
          IN (e.st # "nodecode" /\ \E r \in RegOperands(e.instr) : r \in 16..255)
             => /\ e.st = "panic"
                /\ e.post.reg = e.pre.reg
                /\ DOMAIN e.post.reg = 0..15
                /\ (k = Len(hist) => vpc = "panicked" /\ reg = e.pre.reg)

C10_Witness ==
    /\ vpc = "panicked" /\ hist # <<>>
    /\ Last(hist).instr.op = "LDI" /\ Last(hist).instr.a = 16
    /\ Last(hist).st = "panic"
    /\ reg[15] = U8(1)

----------------------------------------------------------------------------
(* The assembler on rendered sources                                      *)

\* A source the assembler is given: its items, and how the text is laid out
Layouts ==
    { [lead |-> <<>>, sep |-> <<" ">>, trail |-> <<>>],
      [lead |-> <<>>, sep |-> <<"\n", "\t">>, trail |-> <<"\r", "\n">>],
      [lead |-> <<"\n">>, sep |-> <<" ">>, trail |-> <<>>] }

Plain == [lead |-> <<>>, sep |-> <<" ">>, trail |-> <<>>]

\* .a  .b  // a  /! b  //R 3  @ R2 -i16$2  $ x  /< c
AsmMenu ==
    { Lbl(<<"a">>), Lbl(<<"b">>),
      Ins("JMP", <<L(<<"a">>)>>), Ins("JNE", <<L(<<"b">>)>>),
      Ins("JMP", <<A(3)>>),
      Ins("LDI", <<R(2), I(ImmOf("I16", 65534))>>),
      Ins("PUSH", <<T(<<"x">>)>>),
      Ins("JL", <<L(<<"c">>)>>) }

\* Items of a source
MaxItems == 3

\* A run of ten-byte instructions that moves what follows past byte 255
PadItem == Ins("PUSH", <<I(ImmOf("U64", 0))>>)

PadItems == 26

\* Items that follow the run
MaxPadded == 2

AsmSources ==
    {[its |-> its, layout |-> lay] : its \in SeqsUpTo(AsmMenu, MaxItems), lay \in Layouts}
        \cup {[its |-> [k \in 1..PadItems |-> PadItem] \o its, layout |-> Plain] :
                 its \in SeqsUpTo(AsmMenu, MaxPadded)}

TextOf(source) ==
    RenderSource(source.its, source.layout.lead, source.layout.sep, source.layout.trail)

VMNone ==
    /\ instr_ptr = 0 /\ instr_mem = <<>> /\ virt_mem = <<>> /\ stack = <<>>
    /\ reg = [r \in 0..(NumRegs - 1) |-> U8(0)]
    /\ flag_eq = FALSE /\ flag_gt = FALSE /\ is_exe = FALSE /\ vpc = "none"

InitAsm ==
    /\ \E source \in AsmSources : AsmNew(TextOf(source)) /\ HistInit(source.its)
    /\ EnvInit /\ VMNone

NextAsm == DeclareLabel \/ AssembleInstr \/ Patch \/ Finish

SpecAsm == InitAsm /\ [][NextAsm]_vars

\* assemble() is a sequential loop: it runs on as long as it has a step to take
FairSpecAsm == SpecAsm /\ WF_vars(NextAsm)

\* ---- What a source is expected to assemble to (spec sections 4.2 and 6)

OpCode(op) == CHOOSE c \in 0..26 : OpName(c) = op

\* Index of the last declaration of a label, 0 when it has none
LastDecl(its, name) ==
    LET decls == {k \in 1..Len(its) : its[k].kind = "label" /\ its[k].name = name}
    IN IF decls = {} THEN 0 ELSE CHOOSE k \in decls : \A j \in decls : j <= k

\* Byte offset, in the final stream, of the first instruction after the
\* declaration of a label
LabelOffset(its, name) == WireOffset(its, LastDecl(its, name))

Resolves(its) ==
    \A k \in 1..Len(its) : IsSymJump(its[k]) => LastDecl(its, its[k].ops[1].name) # 0

\* The bytes the emit pass writes for an operand: none for a label reference
OperandBytes(o) ==
    CASE o.t \in {"reg", "addr"} -> <<o.n>>
      [] o.t = "imm" -> <<TagOf(o.imm.variant)>> \o to_le_bytes(o.imm.v, SizeOf(o.imm.variant))
      [] OTHER -> <<>>

ItemBytes(item) ==
    IF item.kind = "label" THEN <<>>
    ELSE <<OpCode(item.op)>> \o Flatten([k \in 1..Len(item.ops) |-> OperandBytes(item.ops[k])])

EmitBytes(its) == Flatten([k \in 1..Len(its) |-> ItemBytes(its[k])])

\* Positions (from 1) of the address bytes of the symbolic jumps
AddrPositions(its) == {WireOffset(its, k) + 2 : k \in {j \in 1..Len(its) : IsSymJump(its[j])}}

\* A sequence without the elements at the given positions
WithoutAt(seq, at) ==
    LET inside == {p \in at : p <= Len(seq)}
        Nth(n) == CHOOSE p \in n..(n + Cardinality(inside)) :
                      p \notin at /\ p - Cardinality({a \in at : a < p}) = n
    IN [n \in 1..(Len(seq) - Cardinality(inside)) |-> seq[Nth(n)]]

\* C4: when assemble() returns for a source whose symbolic jumps all resolve,
\* each symbolic jump's opcode byte is followed by one address byte, the offset
\* in the final stream (mod 256) of the first instruction after the label's
\* declaration, and the other bytes are the emitted ones in their order.
C4_LabelPatching ==
    (apc = "done" /\ Resolves(items))
    => /\ \A k \in 1..Len(items) :
             IsSymJump(items[k])
             => /\ WireOffset(items, k) + 2 <= Len(machine_c)
                /\ machine_c[WireOffset(items, k) + 1] = OpCode(items[k].op)
                /\ machine_c[WireOffset(items, k) + 2]
                       = LabelOffset(items, items[k].ops[1].name) % 256
       /\ WithoutAt(machine_c, AddrPositions(items)) = EmitBytes(items) \o <<1>>

\* A forward and a backward reference in one assembled source
C4_Witness ==
    /\ apc = "done"
    /\ \E j, k \in 1..Len(items) :
          /\ IsSymJump(items[j]) /\ IsSymJump(items[k])
          /\ LastDecl(items, items[j].ops[1].name) > j
          /\ LastDecl(items, items[k].ops[1].name) < k
          /\ machine_c[WireOffset(items, j) + 2] > 0

\* ---- Sources whose tokens are all valid (spec section 4.2)

OperandKinds(op) ==
    CASE op \in {"NOP", "HLT"} -> <<>>
      [] op \in {"INT", "HSTORE", "HLOAD"} -> <<{"addr"}>>
      [] op \in JumpOps -> <<{"addr", "lbl"}>>
      [] op = "PUSH" -> <<{"imm"}>>
      [] op \in {"PUSHR", "POP", "HSTORER", "HLOADR"} -> <<{"reg"}>>
      [] op \in {"LDI", "SHR", "SHL"} -> <<{"reg"}, {"imm"}>>
      [] op \in {"CPY", "CMP", "ADD", "SUB", "MUL", "DIV", "AND", "OR", "XOR"} ->
            <<{"reg"}, {"reg"}>>
      [] OTHER -> <<{}>>

\* R0..R15, 0..255, a literal whose magnitude its kind holds, a name
ValidOperand(o) ==
    CASE o.t = "reg" -> o.n \in 0..15
      [] o.t = "addr" -> o.n \in 0..255
      [] o.t = "imm" -> /\ o.imm.variant \in Variants
                        /\ o.imm.variant \in SignedVariants
                              => o.imm.v # MinV(SizeOf(o.imm.variant))
      [] o.t = "lbl" -> o.name # <<>>
      [] OTHER -> FALSE

ValidItem(item) ==
    IF item.kind = "label" THEN item.name # <<>>
    ELSE /\ Len(item.ops) = Len(OperandKinds(item.op))
         /\ \A k \in 1..Len(item.ops) :
               item.ops[k].t \in OperandKinds(item.op)[k] /\ ValidOperand(item.ops[k])

ValidSource(its) == Resolves(its) /\ \A k \in 1..Len(its) : ValidItem(its[k])

\* C6: for every source whose tokens are all valid and whose symbolic jumps
\* all resolve, assemble() terminates and the last byte it returns is HLT.
\* Sources with no token at all are left aside, so that the formula speaks only
\* of sources that have something to assemble.
\* (Violated: a valid source that begins with whitespace makes the first call
\* of rd_til_ws return the empty opcode, and assemble_instr panics on it.)
C6_AssembleEndsWithHlt ==
    (ValidSource(items) /\ items # <<>>) => <>(apc = "done" /\ Last(machine_c) = 1)

----------------------------------------------------------------------------
(* Assemble, then the loop of exec() with decode alone                    *)

DryMenu ==
    { Ins("NOP", <<>>), Ins("HLT", <<>>),
      Ins("PUSH", <<I(U8(7))>>), Ins("PUSHR", <<R(0)>>),
      Ins("LDI", <<R(15), I(ImmOf("I16", 65534))>>),
      Ins("CPY", <<R(1), R(2)>>),
      Ins("JMP", <<A(255)>>), Ins("HSTORE", <<A(0)>>),
      Lbl(<<"a">>), Ins("JE", <<L(<<"a">>)>>) }

\* Items of a source that is assembled and decoded
MaxDry == 3

DrySources == {[its |-> its, layout |-> Plain] : its \in SeqsUpTo(DryMenu, MaxDry)}

InitDry ==
    /\ \E source \in DrySources : AsmNew(TextOf(source)) /\ HistInit(source.its)
    /\ EnvInit
    /\ VMNone

NextDry == NextAsm \/ DryLoad \/ DryStep \/ DryEnd

SpecDry == InitDry /\ [][NextDry]_vars

\* The instruction a source item stands for: its register or address operands
\* in order, and its immediate
InstrOf(item) ==
    LET nums == SelectSeq(item.ops, LAMBDA o : o.t \in {"reg", "addr"})
        imms == SelectSeq(item.ops, LAMBDA o : o.t = "imm")
    IN Instr(item.op,
             IF Len(nums) >= 1 THEN nums[1].n ELSE 0,
             IF Len(nums) >= 2 THEN nums[2].n ELSE 0,
             IF Len(imms) >= 1 THEN imms[1].imm ELSE ImmNone)

\* What a dry run is to record: each instruction at its offset, then HLT
ExpectedDecoded(its) ==
    [k \in 1..(Len(its) + 1) |->
        [at |-> WireOffset(its, k),
         instr |-> IF k <= Len(its) THEN InstrOf(its[k]) ELSE Instr("HLT", 0, 0, ImmNone)]]

\* Opcode forms with canonical operands: no label, no symbolic jump
CanonicalSource(its) ==
    \A k \in 1..Len(its) :
        its[k].kind = "instr" /\ ~IsSymJump(its[k]) /\ ValidItem(its[k])

\* C1: for a source of opcode forms with canonical operands, the dry run over
\* assemble(source) records exactly the source's instructions, in order, each
\* at the offset where its opcode was written, followed by the trailing HLT.
\* (Violated: the arms of decode for NOP and HLT step over the byte that
\* follows them, so the instruction after a NOP or HLT is never decoded.)
C1_AssembleDecodeRoundTrip ==
    (CanonicalSource(items) /\ apc = "done" /\ vpc \in {"returned", "panicked"})
        => decoded = ExpectedDecoded(items)

----------------------------------------------------------------------------
(* Assemble, load, run                                                    *)

RunMenu ==
    { Lbl(<<"a">>),
      Ins("JMP", <<L(<<"a">>)>>), Ins("JE", <<L(<<"a">>)>>), Ins("JNE", <<L(<<"a">>)>>),
      Ins("JG", <<L(<<"a">>)>>), Ins("JL", <<L(<<"a">>)>>),
      Ins("LDI", <<R(2), I(U8(5))>>), Ins("CMP", <<R(2), R(0)>>),
      Ins("PUSH", <<I(U8(1))>>) }

\* Items of a source that is assembled and run
MaxRun == 4

RunSources == {[its |-> its, layout |-> Plain] : its \in SeqsUpTo(RunMenu, MaxRun)}

InitRun ==
    /\ \E source \in RunSources : AsmNew(TextOf(source)) /\ HistInit(source.its)
    /\ EnvInit
    /\ VMNone

NextRun == NextAsm \/ Load \/ ExecCall \/ Iterate \/ Return

SpecRun == InitRun /\ [][NextRun]_vars

\* The instruction the item at index j assembles to; j past the end is the
\* trailing HLT
AssembledInstr(its, j) ==
    IF j > Len(its) THEN Instr("HLT", 0, 0, ImmNone)
    ELSE IF IsSymJump(its[j])
         THEN Instr(its[j].op, LabelOffset(its, its[j].ops[1].name) % 256, 0, ImmNone)
    ELSE InstrOf(its[j])

\* Index of the first instruction after the item at index d
NextInstrIndex(its, d) ==
    LET after == {j \in (d + 1)..Len(its) : its[j].kind = "instr"}
    IN IF after = {} THEN Len(its) + 1 ELSE CHOOSE j \in after : \A q \in after : j <= q

\* The n-th remembered step is the symbolic jump at item k, and it is taken
JumpTakenAt(n, k) ==
    /\ IsSymJump(items[k])
    /\ hist[n].at = WireOffset(items, k)
    /\ hist[n].instr.op = items[k].op
    /\ Taken(items[k].op, hist[n].pre.flag_eq, hist[n].pre.flag_gt)
    /\ LabelOffset(items, items[k].ops[1].name) \in 1..255

\* C5: in an assembled program, a taken symbolic jump to a label declared at
\* offset L in 1..255 makes the next decode happen at L, on the instruction the
\* source places after the declaration, and that instruction starts from the
\* registers, stack, heap and flags the jump started from: nothing in between
\* has acted.
C5_SymbolicBranch ==
    \A n \in 1..Len(hist) : \A k \in 1..Len(items) :
        JumpTakenAt(n, k)
        => LET decl == LastDecl(items, items[k].ops[1].name)
           IN /\ hist[n].st = "ok"
              /\ hist[n].next = LabelOffset(items, items[k].ops[1].name)
              /\ hist[n].post = hist[n].pre
              /\ n < Len(hist)
                 => /\ hist[n + 1].at = LabelOffset(items, items[k].ops[1].name)
                    /\ hist[n + 1].instr = AssembledInstr(items, NextInstrIndex(items, decl))
                    /\ hist[n + 1].pre = hist[n].pre

\* A forward jump over an instruction was taken and the target has run
C5_Witness ==
    \E n \in 1..(Len(hist) - 1) : \E k \in 1..Len(items) :
        /\ JumpTakenAt(n, k)
        /\ \E j \in (k + 1)..(LastDecl(items, items[k].ops[1].name) - 1) :
              items[j].kind = "instr" /\ items[j].op \in {"LDI", "PUSH"}
        /\ hist[n + 1].st = "ok"

\* A backward jump was taken
C5_WitnessBackward ==
    \E n \in 1..(Len(hist) - 1) : \E k \in 1..Len(items) :
        JumpTakenAt(n, k) /\ LastDecl(items, items[k].ops[1].name) < k

----------------------------------------------------------------------------
(* psh_encoded_immed against decode_immed: the encoder is applied to an    *)
(* immediate after the opcode of PUSH, as the arm "$" of assemble_instr    *)
(* applies it, and the bytes are decoded by the loop of exec().            *)

LimbSamples == {0, 1, 255, 256, 32767, 32768, 65535}

LimbEnds == {0, 258, 65535}

ImmedInputs ==
    {ImmNone}
        \cup {Imm(variant, <<n>>) : variant \in {"U8", "I8"}, n \in 0..255}
        \cup {Imm(variant, <<n>>) : variant \in {"U16", "I16"}, n \in LimbSamples}
        \cup {Imm(variant, <<lo, hi>>) : variant \in {"U32", "I32"},
                                         lo \in LimbEnds, hi \in LimbSamples}
        \cup {Imm(variant, <<a, b, c, d>>) : variant \in {"U64", "I64"},
                                             a \in LimbEnds, b \in {0, 65535},
                                             c \in {0, 258}, d \in LimbSamples}
        \cup {Imm(f.variant, f.v) : f \in FloatLiterals}

\* assemble_instr has pushed the opcode of PUSH and is about to encode
InitImmed ==
    /\ \E immediate \in ImmedInputs : HistInit(<<Ins("PUSH", <<I(immediate)>>)>>)
    /\ src = <<NUL>> /\ i = 0 /\ ch = NUL /\ bit = 1 /\ machine_c = <<3>>
    /\ lbls = {} /\ lbl_replaces = <<>> /\ patch_k = 0
    /\ apc = "encode"
    /\ EnvInit
    /\ VMNone

\* The immediate that was drawn
Input == items[1].ops[1].imm

\* self.psh_encoded_immed(immed), at the end of the source
EncodeImmed ==
    /\ apc = "encode"
    /\ machine_c' = machine_c \o psh_encoded_immed(Input)
    /\ bit' = bit + EncodedBit(Input)
    /\ apc' = "patch"
    /\ UNCHANGED <<src, i, ch, lbls, lbl_replaces, patch_k>>
    /\ UNCHANGED <<vmVars, envVars, histVars>>

NextImmed == EncodeImmed \/ Finish \/ DryLoad \/ DryStep \/ DryEnd

SpecImmed == InitImmed /\ [][NextImmed]_vars

\* C7: decoding the bytes the encoder emits for an immediate gives the
\* immediate back, and the decoder consumes exactly those bytes: the loop goes
\* on at the byte after them.
\* (Violated: for None the encoder emits the tag 255 alone, and decode_immed
\* has stepped instr_ptr by two before it looks at the tag, so one byte after
\* the tag is consumed with it.)
C7_ImmediateRoundTrip ==
    /\ vpc # "panicked"
    /\ (vpc = "dry" /\ Len(decoded) = 1)
          => /\ decoded[1].instr = Instr("PUSH", 0, 0, Input)
             /\ instr_ptr = 1 + Len(psh_encoded_immed(Input))

----------------------------------------------------------------------------
(* The whole program: a source is assembled, and the bytes are run         *)

Init == InitRun

Next == NextRun

Spec == Init /\ [][Next]_vars

----------------------------------------------------------------------------
(* The fallback arms of decode and decode_immed, on any byte vector        *)

\* The loop of exec() is about to decode a byte that is no opcode
AtUnknownOpcode ==
    /\ vpc = "running" /\ is_exe /\ instr_ptr < Len(instr_mem)
    /\ At(instr_mem, instr_ptr) \notin 0..26

\* C14: an opcode byte outside 0..26 decodes to NOP; the step changes no
\* register, stack entry, heap cell, flag or latch, and instr_ptr advances by
\* exactly one byte.
C14_UnknownOpcodeIsNop ==
    [][AtUnknownOpcode
         => /\ Last(hist').instr = Instr("NOP", 0, 0, ImmNone)
            /\ instr_ptr' = instr_ptr + 1
            /\ UNCHANGED <<reg, stack, virt_mem, flag_eq, flag_gt, is_exe>>]_vars

\* The last step ran a byte that is no opcode, after another instruction
C14_Witness ==
    /\ Len(hist) >= 2
    /\ At(instr_mem, Last(hist).at) \notin 0..26
    /\ Last(hist).st = "ok"
    /\ instr_ptr = Last(hist).at + 1

\* C15: an immediate whose tag byte is outside 0..9 decodes to None and takes
\* no payload byte: after PUSH at p with such a tag the next decode is at p+2,
\* after LDI, SHR or SHL at p with such a tag it is at p+3.
\* (Violated: decode_immed has stepped instr_ptr by two before it looks at the
\* tag, vm.rs:95-97, so the byte after the tag is stepped over: p+3 and p+4.)
C15_UnknownTagNoPayload ==
    \A n \in 1..Len(hist) :
        LET p == hist[n].at
            opcode == At(instr_mem, p)
            operands == IF opcode = 3 THEN 0 ELSE 1
        IN (/\ opcode \in {3, 6, 21, 22}
            /\ p + operands + 1 < Len(instr_mem)
            /\ At(instr_mem, p + operands + 1) \notin 0..9
            /\ hist[n].st = "ok")
           => /\ hist[n].instr.imm = ImmNone
              /\ hist[n].next = p + operands + 2

----------------------------------------------------------------------------
(* Decoding the assembler's output                                         *)

\* The offsets at which the assembler wrote an opcode: one for each
\* instruction of the source, and the trailing HLT
OpcodeOffsets(its) ==
    {WireOffset(its, k) :
        k \in {j \in 1..(Len(its) + 1) : j > Len(its) \/ its[j].kind = "instr"}}

\* No HLT is among the first n decoded instructions: a run would still be going
Unhalted(n) == \A q \in 1..n : decoded[q].instr.op # "HLT"

\* C13: over the bytes the assembler produced from a source it accepts, with
\* no jump taken, every byte decoded as an opcode while the run is going is a
\* byte the assembler wrote as an opcode, and decode does not index
\* instruction memory past its end.
\* (Violated: the arms of decode for NOP and HLT step over the byte that
\* follows them, so the decode after a NOP starts one byte late, inside the
\* operands of the next instruction.)
C13_DecodeOnOpcodesOnly ==
    apc = "done"
      => /\ \A n \in 1..Len(decoded) :
               Unhalted(n - 1) => decoded[n].at \in OpcodeOffsets(items)
         /\ (vpc = "panicked" => ~Unhalted(Len(decoded)))

----------------------------------------------------------------------------
(* The heap: HEAP_ALLOC, READ_FILE, the stores and the loads               *)

\* PUSH U8(0..2), INT 1, HSTORE 0, 1, 255, HSTORER R0, HLOAD 0, POP R0,
\* LDI R0 U8(2)
HeapMenu ==
    { <<3, 0, 0>>, <<3, 0, 1>>, <<3, 0, 2>>, <<2, 1>>,
      <<23, 0>>, <<23, 1>>, <<23, 255>>, <<24, 0>>, <<25, 0>>, <<5, 0>>,
      <<6, 0, 0, 2>> }

\* Instructions of a program over the heap
MaxHeapProg == 3

\* PUSH U32(0); HSTORE 0; PUSH U8(0); INT 2: READ_FILE of the file whose path
\* is the empty string held at address 0
ReadFileAtZero == <<3, 4, 0, 0, 0, 0, 23, 0, 3, 0, 0, 2, 2>>

HeapPrograms ==
    {Flatten(p) : p \in SeqsUpTo(HeapMenu, MaxHeapProg)}
        \cup {ReadFileAtZero \o c : c \in HeapMenu \cup {<<>>}}

\* main builds every machine with DEFAULT_HEAP_SIZE cells, so a heap is never
\* empty; the sizes here stand for that one
InitHeap ==
    /\ AsmIdle /\ EnvInit /\ HistInit(<<>>)
    /\ \E code \in HeapPrograms, heap_max \in 1..HeapMax : VMFresh(code, heap_max)
    /\ vpc = "new"

SpecHeap == InitHeap /\ [][NextVM]_vars

\* The address a remembered step stores to: the operand of HSTORE, the value
\* of the register of HSTORER as far as it is below `limit`, -1 for a value at
\* or past `limit` and for a register that holds no address
StoreAddr(h, limit) ==
    IF h.instr.op = "HSTORE" THEN h.instr.a
    ELSE IF RegOk(h.instr.a) /\ h.pre.reg[h.instr.a].variant \in AddrVariants
         THEN AsIndexBelow(h.pre.reg[h.instr.a].v, limit)
    ELSE -1

\* C11: the heap's length never decreases and changes only in INT 1 or in
\* INT 2 (which runs the allocator); HSTORE and HSTORER write to existing
\* addresses only, and a store to an address at or past the heap's length
\* aborts the run with the heap as it was.
C11_OnlyAllocGrowsHeap ==
    \A n \in 1..Len(hist) :
        LET h == hist[n]
            old == Len(h.pre.virt_mem)
            new == Len(h.post.virt_mem)
            addr == StoreAddr(h, old)
        IN /\ new >= old
           /\ new # old => h.instr.op = "INT" /\ h.instr.a \in {1, 2}
           /\ (h.instr.op \in {"HSTORE", "HSTORER"} /\ h.pre.stack # <<>>)
                => IF addr \in 0..(old - 1)
                   THEN /\ h.st = "ok"
                        /\ h.post.virt_mem = [h.pre.virt_mem EXCEPT ![addr + 1] = Last(h.pre.stack)]
                   ELSE h.st = "panic" /\ h.post.virt_mem = h.pre.virt_mem

\* The allocator has grown the heap, and then a store past the end has aborted
C11_Witness ==
    /\ \E n \in 1..Len(hist) : Len(hist[n].post.virt_mem) > Len(hist[n].pre.virt_mem)
    /\ Len(hist) >= 1
    /\ Last(hist).instr.op = "HSTORE"
    /\ Last(hist).instr.a >= Len(Last(hist).pre.virt_mem)
    /\ Last(hist).pre.stack # <<>>
    /\ vpc = "panicked"

\* The tag byte of the immediate of a remembered step, -1 when the
\* instruction has no immediate
TagByteOf(h) ==
    IF h.instr.op = "PUSH" THEN At(instr_mem, h.at + 1)
    ELSE IF h.instr.op \in {"LDI", "SHR", "SHL"} THEN At(instr_mem, h.at + 2)
    ELSE -1

\* No remembered step took the fallback arm of decode_immed (the programs of
\* HeapPrograms hold no tag byte but 0 and 4)
TagsInRange == \A n \in 1..Len(hist) : TagByteOf(hist[n]) \in -1..9

\* C12: as long as every tag byte decoded is in 0..9, no register and no
\* stack entry holds None.
\* (Violated: the heap starts as heap_max cells of None, vm.rs:70, and HLOAD
\* and HLOADR push the cell as it is, vm.rs:767-774.)
C12_NoneOnlyFromBadTag ==
    TagsInRange
      => /\ \A r \in DOMAIN reg : reg[r] # ImmNone
         /\ \A k \in 1..Len(stack) : stack[k] # ImmNone

\* The remembered step is INT 1 with a length of an address kind on top of
\* the stack
IsAlloc(h) ==
    /\ h.instr = Instr("INT", 1, 0, ImmNone)
    /\ h.pre.stack # <<>>
    /\ Last(h.pre.stack).variant \in AddrVariants
    /\ AllocLen(Last(h.pre.stack).v) >= 0

\* The length it asks for
Asked(h) == AllocLen(Last(h.pre.stack).v)

\* The addresses at which `heap` holds n consecutive cells of None
FreeRuns(heap, n) ==
    {p \in 0..(Len(heap) - n) : \A q \in p..(p + n - 1) : heap[q + 1] = ImmNone}

\* C19: INT 1 with length n >= 0 on a heap that holds a run of n cells of
\* None takes the smallest address p at which such a run starts, sets exactly
\* the cells p..p+n-1 to U8(0), leaves the heap's length as it was, and pushes
\* U64(p) in place of the length.
\* (Violated for n = 0: the scan stops at the first cell of None, at i, and
\* answers i - 0 + 1, vm.rs:375-378, where the smallest p is 0.)
C19_AllocFirstFit ==
    \A n \in 1..Len(hist) :
        LET h == hist[n]
            runs == FreeRuns(h.pre.virt_mem, Asked(h))
            p == Min(runs)
        IN (IsAlloc(h) /\ runs # {})
             => /\ h.st = "ok"
                /\ h.post.virt_mem =
                     [k \in 1..Len(h.pre.virt_mem) |->
                        IF k - 1 \in p..(p + Asked(h) - 1) THEN U8(0) ELSE h.pre.virt_mem[k]]
                /\ h.post.stack = Append(Front(h.pre.stack), U64(p))

----------------------------------------------------------------------------
(* The flags, and operations on registers of two variants                  *)

\* LDI R1 U8(1), LDI R1 I16(1); CMP both ways; ADD..XOR R0 R1; SHR and SHL of
\* R1 by U8(1); the five jumps to 255; PUSH U8(0); INT 0..4 and INT 5, 9, 255
FlagsMenu ==
    { <<6, 1, 0, 1>>, <<6, 1, 3, 1, 0>>, <<13, 0, 1>>, <<13, 1, 0>>,
      <<21, 1, 0, 1>>, <<22, 1, 0, 1>>, <<3, 0, 0>> }
        \cup {<<op, 0, 1>> : op \in 14..20}
        \cup {<<op, 255>> : op \in 8..12}
        \cup {<<2, n>> : n \in {0, 1, 2, 3, 4, 5, 9, 255}}

\* Instructions of a program after its prefix
MaxFlagProg == 2

\* What runs first: nothing; CMP R0 R0 (eq); LDI R1 U8(1), CMP R1 R0 (gt)
FlagPrefixes == {<<>>, <<13, 0, 0>>, <<6, 1, 0, 1, 13, 1, 0>>}

\* PUSH U32(0); HSTORE 0; PUSH U8(0): the empty string at address 0, and its
\* address on the stack
StringAtZero == <<3, 4, 0, 0, 0, 0, 23, 0, 3, 0, 0>>

\* The interrupts on the empty string, after CMP R0 R0 where the steps allow
InterruptPrograms ==
    {<<13, 0, 0>> \o StringAtZero \o <<2, n>> : n \in {0, 2, 4}}
        \cup {StringAtZero \o <<3, 0, 0, 2, 3>>}

FlagPrograms ==
    {pre \o Flatten(p) : pre \in FlagPrefixes, p \in SeqsUpTo(FlagsMenu, MaxFlagProg)}
        \cup InterruptPrograms

InitFlags ==
    /\ AsmIdle /\ EnvInit /\ HistInit(<<>>)
    /\ \E code \in FlagPrograms : VMFresh(code, HeapMax)
    /\ vpc = "new"

SpecFlags == InitFlags /\ [][NextVM]_vars

\* C16: both flags are false when the machine is built, and a step changes a
\* flag only if the instruction it runs is CMP: interrupts, jumps taken or
\* not, and every other instruction leave both flags as they were.
C16_OnlyCmpWritesFlags ==
    /\ ~flag_eq /\ ~flag_gt
    /\ [][<<flag_eq, flag_gt>>' # <<flag_eq, flag_gt>>
            => /\ vpc = "running" /\ steps' = steps + 1
               /\ Last(hist').instr.op = "CMP"]_vars

\* A CMP has set gt, and the interrupt that ran last has left it set
C16_Witness ==
    /\ \E n \in 1..Len(hist) :
          hist[n].instr.op = "CMP" /\ ~hist[n].pre.flag_gt /\ hist[n].post.flag_gt
    /\ Last(hist).instr = Instr("INT", 1, 0, ImmNone)
    /\ Last(hist).st = "ok"
    /\ flag_gt /\ ~flag_eq

\* The remembered step works on two values of different variants: two
\* registers, or for SHR and SHL a register and the immediate
MixedVariants(h) ==
    \/ /\ h.instr.op \in {"ADD", "SUB", "MUL", "DIV", "AND", "OR", "XOR", "CMP"}
       /\ RegOk(h.instr.a) /\ RegOk(h.instr.b)
       /\ h.pre.reg[h.instr.a].variant # h.pre.reg[h.instr.b].variant
    \/ /\ h.instr.op \in {"SHR", "SHL"}
       /\ RegOk(h.instr.a)
       /\ h.pre.reg[h.instr.a].variant # h.instr.imm.variant

\* C17: ADD, SUB, MUL, DIV, AND, OR, XOR or CMP on two registers of different
\* variants, and SHR or SHL by an immediate of another variant than the
\* register's, abort the run; nothing is pushed and no flag is written.
\* (Violated by CMP: it compares with the derived == and > of Immediate,
\* vm.rs:639-644, which are defined across variants.)
C17_MixedVariantsAbort ==
    \A n \in 1..Len(hist) :
        MixedVariants(hist[n])
          => /\ hist[n].st = "panic"
             /\ hist[n].post.stack = hist[n].pre.stack
             /\ hist[n].post.flag_eq = hist[n].pre.flag_eq
             /\ hist[n].post.flag_gt = hist[n].pre.flag_gt

----------------------------------------------------------------------------
(* ADD, SUB, MUL, DIV on two registers of one integer variant              *)

\* The numbers the registers are loaded with
ArithSamples == {-3, -1, 0, 1, 2, 7, 100, 300, 40000}

\* The number z is a value of the variant (of the numbers TLC can hold, every
\* one is a value of I32 and I64, and every one from 0 on of U32 and U64)
FitsVariant(variant, z) ==
    CASE variant = "U8" -> z \in 0..255
      [] variant = "I8" -> z \in -128..127
      [] variant = "U16" -> z \in 0..65535
      [] variant = "I16" -> z \in -32768..32767
      [] variant \in {"U32", "U64"} -> z >= 0
      [] OTHER -> TRUE

\* The number z as a value of the variant: its digits, and for a negative
\* number the digits of -z-1 complemented
ValueOf(variant, z) ==
    LET size == SizeOf(variant)
        w == IF z >= 0 THEN z ELSE -z - 1
        digits == [k \in 1..NLimbs(size) |->
                     IF k = 1 THEN w % LimbBase(size)
                     ELSE IF k = 2 THEN w \div LimbBase(size) ELSE 0]
    IN Imm(variant, IF z >= 0 THEN digits
                    ELSE [k \in 1..NLimbs(size) |-> LimbBase(size) - 1 - digits[k]])

Abs(z) == IF z >= 0 THEN z ELSE -z

\* x + y, x - y, x * y, and x / y rounded towards zero
Exact(op, x, y) ==
    CASE op = "ADD" -> x + y
      [] op = "SUB" -> x - y
      [] op = "MUL" -> x * y
      [] op = "DIV" -> IF (x >= 0) = (y >= 0) THEN Abs(x) \div Abs(y)
                       ELSE -(Abs(x) \div Abs(y))

\* LDI R1 x; LDI R2 y; then ADD, SUB, MUL or DIV R1 R2
ArithOn(variant) ==
    LET fit == {z \in ArithSamples : FitsVariant(variant, z)}
    IN {<<6, 1>> \o psh_encoded_immed(ValueOf(variant, x))
          \o <<6, 2>> \o psh_encoded_immed(ValueOf(variant, y))
          \o <<opcode, 1, 2>> : x \in fit, y \in fit, opcode \in 14..17}

ArithPrograms == UNION {ArithOn(variant) : variant \in IntVariants}

InitArith ==
    /\ AsmIdle /\ EnvInit /\ HistInit(<<>>)
    /\ \E code \in ArithPrograms : VMFresh(code, HeapMax)
    /\ vpc = "new"

SpecArith == InitArith /\ [][NextVM]_vars

\* C18: ADD, SUB, MUL, DIV on two registers that hold x and y of one integer
\* variant, the exact result being a value of the variant (and y # 0 for DIV),
\* push exactly one value, of that variant and equal to x+y, x-y, x*y or x/y
\* rounded towards zero, and leave the registers, the heap and the flags as
\* they were.
\* (Violated: the arm of MUL for U8 pushes a-b, vm.rs:676.)
C18_ExactArithmetic ==
    \A n \in 1..Len(hist), variant \in IntVariants, x \in ArithSamples, y \in ArithSamples :
        LET h == hist[n]
        IN (/\ h.instr.op \in {"ADD", "SUB", "MUL", "DIV"}
            /\ RegOk(h.instr.a) /\ RegOk(h.instr.b)
            /\ FitsVariant(variant, x) /\ FitsVariant(variant, y)
            /\ h.pre.reg[h.instr.a] = ValueOf(variant, x)
            /\ h.pre.reg[h.instr.b] = ValueOf(variant, y)
            /\ (h.instr.op = "DIV" => y # 0)
            /\ FitsVariant(variant, Exact(h.instr.op, x, y)))
           => /\ h.st = "ok"
              /\ h.post.stack = Append(h.pre.stack, ValueOf(variant, Exact(h.instr.op, x, y)))
              /\ h.post.reg = h.pre.reg
              /\ h.post.virt_mem = h.pre.virt_mem
              /\ h.post.flag_eq = h.pre.flag_eq /\ h.post.flag_gt = h.pre.flag_gt

----------------------------------------------------------------------------
(* CMP on two registers of one integer variant, and the jump after it      *)

\* The numbers the registers are loaded with
CmpSamples == {-3, -1, 0, 1, 300, 40000, 70000}

\* LDI R1 x; LDI R2 y; CMP R1 R2; then JE, JNE, JG or JL over a PUSH U8(7) to
\* a PUSH U8(9), the jump coming right after the CMP or after a PUSH U8(5)
BranchOn(variant) ==
    LET fit == {z \in CmpSamples : FitsVariant(variant, z)}
    IN {LET head == <<6, 1>> \o psh_encoded_immed(ValueOf(variant, x))
                      \o <<6, 2>> \o psh_encoded_immed(ValueOf(variant, y))
                      \o <<13, 1, 2>> \o between
        IN head \o <<opcode, Len(head) + 5>> \o <<3, 0, 7, 3, 0, 9>> :
            x \in fit, y \in fit, opcode \in 9..12, between \in {<<>>, <<3, 0, 5>>}}

BranchPrograms == UNION {BranchOn(variant) : variant \in IntVariants}

InitBranch ==
    /\ AsmIdle /\ EnvInit /\ HistInit(<<>>)
    /\ \E code \in BranchPrograms : VMFresh(code, HeapMax)
    /\ vpc = "new"

SpecBranch == InitBranch /\ [][NextVM]_vars

\* Whether the jump is to be taken after a comparison of x with y
Branches(op, x, y) ==
    CASE op = "JE" -> x = y
      [] op = "JNE" -> x # y
      [] op = "JG" -> x > y
      [] op = "JL" -> ~(x > y)

\* The remembered steps from c on, up to the next CMP, that are conditional jumps
JumpsAfter(c) ==
    {j \in (c + 1)..Len(hist) :
        /\ hist[j].instr.op \in {"JE", "JNE", "JG", "JL"}
        /\ \A k \in (c + 1)..j : hist[k].instr.op # "CMP"}

----------------------------------------------------------------------------
(* Jumps to address 0, and past the end of instruction memory              *)

\* The remembered step is a jump, and it is taken
IsTakenJump(h) ==
    h.instr.op \in JumpOps /\ Taken(h.instr.op, h.pre.flag_eq, h.pre.flag_gt)

\* C22: a taken jump with the address byte 0 (the byte of a label declared at
\* offset 0, or a raw one) does not go on with the decode of offset 0.
\* (Violated without overflow checks: addr - 1 wraps to usize::MAX, vm.rs:622,
\* and the `instr_ptr += 1` of the loop, vm.rs:90, wraps it back to 0.)
C22_NoJumpToZero ==
    \A n \in 1..Len(hist) :
        (IsTakenJump(hist[n]) /\ hist[n].instr.a = 0)
          => ~(hist[n].st = "ok" /\ hist[n].next = 0)

----------------------------------------------------------------------------
(* Symbolic jumps in a program longer than 256 bytes                       *)

\* A jump to the label a that comes first, then a run of PadItem and up to
\* one shorter instruction, so that the label is declared at 252..266, then
\* the label and what follows it
FarSources ==
    {[its |-> <<Ins(op, <<L(<<"a">>)>>)>>
                 \o [k \in 1..pads |-> PadItem] \o fill \o <<Lbl(<<"a">>)>> \o tail,
      layout |-> Plain] :
        op \in {"JMP", "JE", "JNE", "JL"},
        pads \in {PadItems - 1, PadItems},
        fill \in {<<>>, <<Ins("PUSH", <<I(U8(1))>>)>>, <<Ins("LDI", <<R(2), I(U8(5))>>)>>},
        tail \in {<<>>, <<Ins("PUSH", <<I(U8(1))>>)>>}}

InitFar ==
    /\ \E source \in FarSources : AsmNew(TextOf(source)) /\ HistInit(source.its)
    /\ EnvInit
    /\ VMNone

SpecFar == InitFar /\ [][NextRun]_vars

\* The n-th remembered step is the symbolic jump at item k, and it is taken
SymJumpTaken(n, k) ==
    /\ IsSymJump(items[k])
    /\ hist[n].at = WireOffset(items, k)
    /\ hist[n].instr.op = items[k].op
    /\ IsTakenJump(hist[n])

\* C23: the address of a symbolic jump is one byte: a taken symbolic jump to a
\* label declared at position P goes on at offset P mod 256, which is the
\* label for P in 1..255 and is not for P >= 256.
\* (Violated for P = 256: the byte is 0, and the jump to address 0 aborts in a
\* build with overflow checks, as in C22.)
C23_LabelByteTruncated ==
    \A n \in 1..Len(hist), k \in 1..Len(items) :
        SymJumpTaken(n, k)
          => /\ hist[n].st = "ok"
             /\ hist[n].next = LabelOffset(items, items[k].ops[1].name) % 256

----------------------------------------------------------------------------
(* Fatal errors of the instructions                                        *)

\* C24: a taken jump to an address past the length of instruction memory
\* aborts the run: exec() does not return.
\* (Violated: JMP only assigns instr_ptr, vm.rs:622; the loop condition
\* `instr_ptr < instr_mem.len()` then fails, vm.rs:87, and exec() returns.)
C24_FarJumpAborts ==
    \A n \in 1..Len(hist) :
        (IsTakenJump(hist[n]) /\ hist[n].instr.a > Len(instr_mem))
          => hist[n].st = "panic" /\ vpc # "returned"

\* C25: POP, HSTORE and HSTORER on an empty stack abort the run, and no
\* register and no heap cell is written.
C25_EmptyStackAborts ==
    \A n \in 1..Len(hist) :
        (hist[n].instr.op \in {"POP", "HSTORE", "HSTORER"} /\ hist[n].pre.stack = <<>>)
          => /\ hist[n].st = "panic"
             /\ hist[n].post.reg = hist[n].pre.reg
             /\ hist[n].post.virt_mem = hist[n].pre.virt_mem

\* A store has emptied the stack, and the POP after it has aborted
C25_Witness ==
    /\ Len(hist) >= 2
    /\ hist[Len(hist) - 1].instr.op \in {"HSTORE", "HSTORER"}
    /\ hist[Len(hist) - 1].st = "ok"
    /\ Last(hist).instr.op = "POP"
    /\ Last(hist).pre.stack = <<>>
    /\ vpc = "panicked"

\* C26: INT n with n outside 0..4 aborts the run; no value is popped or
\* pushed and the heap is not touched.
C26_UnknownInterruptAborts ==
    \A n \in 1..Len(hist) :
        (hist[n].instr.op = "INT" /\ hist[n].instr.a \notin 0..4)
          => /\ hist[n].st = "panic"
             /\ hist[n].post.stack = hist[n].pre.stack
             /\ hist[n].post.virt_mem = hist[n].pre.virt_mem

\* INT 255 has aborted with a value on the stack
C26_Witness ==
    /\ Len(hist) >= 2
    /\ Last(hist).instr = Instr("INT", 255, 0, ImmNone)
    /\ Last(hist).pre.stack # <<>>
    /\ stack = Last(hist).pre.stack
    /\ vpc = "panicked"

----------------------------------------------------------------------------
(* The arguments of the interrupts                                         *)

\* One value of each variant: the integers 0, the floats 0.0, and None
ArgValues ==
    {ImmOf(variant, 0) : variant \in IntVariants}
        \cup {Imm("F32", ZeroV(4)), Imm("F64", ZeroV(8)), ImmNone}

\* PUSH of a value; the byte after the tag 255 of None is one decode steps over
PushOf(v) == IF v = ImmNone THEN <<3, 255, 0>> ELSE <<3>> \o psh_encoded_immed(v)

\* PUSH U32(0); HSTORE 0: the empty string at address 0
EmptyAtZero == <<3, 4, 0, 0, 0, 0, 23, 0>>

\* INT 0..4 on an empty stack; on one value of each variant, the heap new or
\* holding the empty string; INT 3 on each value below the address 0
ArgPrograms ==
    {<<2, n>> : n \in 0..4}
        \cup {pre \o PushOf(v) \o <<2, n>> :
                 pre \in {<<>>, EmptyAtZero}, v \in ArgValues, n \in 0..4}
        \cup {EmptyAtZero \o PushOf(v) \o PushOf(U8(0)) \o <<2, 3>> : v \in ArgValues}

InitArgs ==
    /\ AsmIdle /\ EnvInit /\ HistInit(<<>>)
    /\ \E code \in ArgPrograms : VMFresh(code, HeapMax)
    /\ vpc = "new"

SpecArgs == InitArgs /\ [][NextVM]_vars

\* The value is no argument of an interrupt: it is of no address kind
NoArg(stk, k) == k < 1 \/ stk[k].variant \notin AddrVariants

\* The value is the address of an empty string
EmptyStringAt(h, k) ==
    /\ k >= 1 /\ ~NoArg(h.pre.stack, k)
    /\ AsIndexBelow(h.pre.stack[k].v, Len(h.pre.virt_mem)) >= 0
    /\ h.pre.virt_mem[AsIndexBelow(h.pre.stack[k].v, Len(h.pre.virt_mem)) + 1] = U32(0)

PathOnTop(h) ==
    /\ ~NoArg(h.pre.stack, Len(h.pre.stack))
    /\ ReadStr(h.pre.virt_mem,
               AsIndexBelow(Last(h.pre.stack).v, Len(h.pre.virt_mem)), <<>>).ok

\* The stack of the step holds, in place of its argument, U64(b) for the start
\* b of a buffer that holds the text and U32(0) after it, below U8(1)
ReadAnswer(h) ==
    LET text == h.host.read.text
        b == AsIndexBelow(h.post.stack[Len(h.post.stack) - 1].v, Len(h.post.virt_mem))
    IN /\ Len(h.post.stack) = Len(h.pre.stack) + 1
       /\ SubSeq(h.post.stack, 1, Len(h.pre.stack) - 1) = Front(h.pre.stack)
       /\ Last(h.post.stack) = U8(1)
       /\ h.post.stack[Len(h.post.stack) - 1].variant = "U64"
       /\ b >= 0 /\ b + Len(text) < Len(h.post.virt_mem)
       /\ \A k \in 1..Len(text) : h.post.virt_mem[b + k] = Imm("U32", text[k])
       /\ h.post.virt_mem[b + Len(text) + 1] = U32(0)

\* C28: INT 2 on the address of a path pops that one value and leaves two:
\* U64(0) below U8(0) when the file cannot be read, with the heap as it was,
\* and U64(bufferStart) below U8(1) when it can; in both cases the run goes on
\* with the next instruction.
\* (Violated: after a successful read the terminator is written at
\* bufferStart + len without a bounds check, vm.rs:469, which is past the end
\* of the heap when the buffer found ends at the heap's last cell.)
C28_ReadFileProtocol ==
    \A n \in 1..Len(hist) :
        LET h == hist[n]
        IN (h.instr = Instr("INT", 2, 0, ImmNone) /\ PathOnTop(h))
           => /\ h.st = "ok"
              /\ h.next = h.at + 2
              /\ IF h.host.read.ok THEN ReadAnswer(h)
                 ELSE /\ h.post.stack = Front(h.pre.stack) \o <<U64(0), U8(0)>>
                      /\ h.post.virt_mem = h.pre.virt_mem

----------------------------------------------------------------------------
(* INT 0, WRITE                                                            *)

\* What a cell is made to hold: 'A', the terminator, the last scalar value,
\* a surrogate, the first number past the scalar values, and a U8
CellMenu ==
    { U32(65), U32(0), Imm("U32", <<65535, 16>>), Imm("U32", <<55296, 0>>),
      Imm("U32", <<0, 17>>), U8(65) }

\* PUSH v; HSTORE addr, or nothing
StoreOf(v, addr) == IF v = ImmNone THEN <<>> ELSE PushOf(v) \o <<23, addr>>

\* The cells 0 and 1 are stored to or left free; then PUSH of an address and INT 0
WritePrograms ==
    {StoreOf(c0, 0) \o StoreOf(c1, 1) \o PushOf(a) \o <<2, 0>> :
        c0 \in CellMenu \cup {ImmNone}, c1 \in CellMenu \cup {ImmNone},
        a \in {U8(0), U8(1), U8(2), U64(0)}}

InitWrite ==
    /\ AsmIdle /\ EnvInit /\ HistInit(<<>>)
    /\ \E code \in WritePrograms, heap_max \in 1..HeapMax : VMFresh(code, heap_max)
    /\ vpc = "new"

SpecWrite == InitWrite /\ [][NextVM]_vars

\* The cells from a on that hold U32(0)
Terminators(heap, a) == {e \in a..(Len(heap) - 1) : heap[e + 1] = U32(0)}

\* From a up to the first terminator every cell is a U32 with a scalar value
IsString(heap, a) ==
    /\ Terminators(heap, a) # {}
    /\ \A q \in a..(Min(Terminators(heap, a)) - 1) :
          heap[q + 1].variant = "U32" /\ IsScalar(heap[q + 1].v)

\* The characters of the string at a
StringAt(heap, a) ==
    [k \in 1..(Min(Terminators(heap, a)) - a) |-> heap[a + k].v]

\* The address on top of the stack of a step, at most the heap's length
TopAddr(h) ==
    LET a == AsIndexBelow(Last(h.pre.stack).v, Len(h.pre.virt_mem))
    IN IF a < 0 THEN Len(h.pre.virt_mem) ELSE a

----------------------------------------------------------------------------
(* A symbolic jump to a name that no line declares                        *)

\* The emit pass has read the source to its end
EmitOver == src[i + 1] = NUL

\* The patch loop stands at a name that lbls does not hold
AtUnknownLabel ==
    /\ patch_k < Len(lbl_replaces)
    /\ ~MapHas(lbls, lbl_replaces[patch_k + 1][2])

\* The patch loop has a name before it that lbls does not hold
UnknownAhead ==
    \E k \in (patch_k + 1)..Len(lbl_replaces) : ~MapHas(lbls, lbl_replaces[k][2])

\* C30: a source with a symbolic jump to a name declared nowhere never makes
\* assemble() return a byte stream: the emit pass takes the jump, the patch
\* loop has the name before it as long as it runs, aborts in the step that
\* meets it, and aborts for nothing else, wherever the jump stands and
\* whatever other jumps have been patched before.
C30_UnknownLabelFails ==
    /\ [](~Resolves(items)
            => /\ apc # "done"
               /\ apc = "patch" => UnknownAhead
               /\ (apc = "panicked" /\ EmitOver) => AtUnknownLabel)
    /\ [][(apc = "patch" /\ AtUnknownLabel) => apc' = "panicked"]_vars

\* The patch loop has aborted at the second jump, after it patched the first
C30_Witness ==
    /\ apc = "panicked" /\ EmitOver /\ AtUnknownLabel
    /\ patch_k >= 1
    /\ ~Resolves(items)

----------------------------------------------------------------------------
(* Register, raw-address and interrupt-number operands                    *)

\* Numbers written as operands: the ends of 0..15 and of 0..255 and the
\* numbers past them
OperandNumbers == {0, 15, 16, 255, 256, 300}

\* $$ Rn   : Rn Rm   //R n   int n   str n, with tokens that are no numbers;
\* a label and a jump to it
OperandMenu ==
    {Ins("PUSHR", <<R(n)>>) : n \in OperandNumbers}
        \cup {Ins("CPY", <<R(15), R(n)>>) : n \in {0, 16}}
        \cup {Ins("JMP", <<A(n)>>) : n \in OperandNumbers}
        \cup {Ins("INT", <<A(n)>>) : n \in {0, 255, 256}}
        \cup {Ins("HSTORE", <<A(n)>>) : n \in {0, 255, 256}}
        \cup { Ins("PUSHR", <<T(<<"R">>)>>), Ins("PUSHR", <<T(<<"r", "5">>)>>),
               Ins("PUSHR", <<T(<<"5">>)>>), Ins("INT", <<T(<<"R", "5">>)>>),
               Ins("JMP", <<T(<<"-", "1">>)>>),
               Lbl(<<"a">>), Ins("JE", <<L(<<"a">>)>>) }

\* Items of a source of operands
MaxOperandItems == 2

InitOperands ==
    /\ \E its \in SeqsUpTo(OperandMenu, MaxOperandItems) :
          AsmNew(RenderSource(its, <<>>, <<" ">>, <<>>)) /\ HistInit(its)
    /\ EnvInit /\ VMNone

SpecOperands == InitOperands /\ [][NextAsm]_vars

\* The number an operand is written as is one the table allows
InTable(o) ==
    CASE o.t = "reg" -> o.n \in 0..15
      [] o.t = "addr" -> o.n \in 0..255
      [] o.t = "lbl" -> TRUE
      [] OTHER -> FALSE

\* C31: assemble() returns only for sources whose register operands are R
\* and a decimal in 0..15 and whose raw-address and interrupt-number operands
\* are decimals in 0..255, and each operand byte of the stream is the number
\* written.
\* (Violated: reg() and addr() take any usize and the arms cast it to u8.)
C31_OperandValidation ==
    apc = "done"
    => \A k \in 1..Len(items) : \A j \in 1..Len(items[k].ops) :
          /\ InTable(items[k].ops[j])
          /\ items[k].ops[j].t \in {"reg", "addr"}
               => machine_c[WireOffset(items, k) + 1 + j] = items[k].ops[j].n

----------------------------------------------------------------------------
(* Signed immediate literals                                              *)

\* Values of a signed kind: 0, 1, 100, the greatest, -1, -100, the least but
\* one and the least
SignedPatterns(size) ==
    LET small(n) == [k \in 1..NLimbs(size) |-> IF k = 1 THEN n ELSE 0]
    IN { ZeroV(size), small(1), small(100), NegV(IncFrom(MinV(size), 1, LimbBase(size)), size),
         MaxV(size), NegV(small(100), size), IncFrom(MinV(size), 1, LimbBase(size)),
         MinV(size) }

\* -u8$1  -u16$0  -u32$7  -u64$5
MinusUnsigned ==
    { <<"-", "u", "8", "$", "1">>, <<"-", "u", "1", "6", "$", "0">>,
      <<"-", "u", "3", "2", "$", "7">>, <<"-", "u", "6", "4", "$", "5">> }

\* What stands before the PUSH: nothing, a label, or a jump and its label
LiteralPrefixes ==
    { <<>>, <<Lbl(<<"a">>)>>, <<Ins("JE", <<L(<<"a">>)>>), Lbl(<<"a">>)>> }

\* $ <literal>, the literal written as spec section 4.2 has it
PushesOf(variant) ==
    {Ins("PUSH", <<I(Imm(variant, v))>>) : v \in SignedPatterns(SizeOf(variant))}

LiteralSources ==
    {pre \o <<push>> :
        pre \in LiteralPrefixes,
        push \in UNION {PushesOf(variant) : variant \in SignedVariants}
                    \cup {Ins("PUSH", <<T(text)>>) : text \in MinusUnsigned}}

InitLiterals ==
    /\ \E its \in LiteralSources :
          AsmNew(RenderSource(its, <<>>, <<" ">>, <<>>)) /\ HistInit(its)
    /\ EnvInit /\ VMNone

SpecLiterals == InitLiterals /\ [][NextAsm]_vars

\* C32: a PUSH of a signed literal, written with a leading minus and the
\* magnitude when the value is negative, never makes assemble() abort, and the
\* stream assemble() returns holds at its offset the opcode, the tag and the
\* little-endian two's-complement payload of the value; a PUSH of an unsigned
\* kind with a leading minus never makes assemble() return.
\* (Violated: the magnitude of the least value of a kind is no value of the
\* kind, and unwrap() on its parse panics.)
C32_SignedLiterals ==
    LET k == Len(items)
        o == items[k].ops[1]
    IN IF o.t = "imm"
       THEN /\ apc # "panicked"
            /\ apc = "done"
                 => SubSeq(machine_c, WireOffset(items, k) + 1,
                           WireOffset(items, k) + WireLen(items[k])) = ItemBytes(items[k])
       ELSE apc # "done"

----------------------------------------------------------------------------
(* ADD, SUB, MUL whose exact result is no value of the variant             *)

\* The number z reduced modulo 2^w, as a value of the variant (of the numbers
\* TLC can hold, only those below 0 are no value of U32 and U64, and ValueOf
\* gives their two's-complement digits)
Wrapped(variant, z) ==
    IF SizeOf(variant) <= 2
    THEN Imm(variant, <<z % LimbBase(SizeOf(variant))>>)
    ELSE ValueOf(variant, z)

\* C33: ADD, SUB, MUL on two registers that hold x and y of one integer
\* variant of width w never abort the run and push the exact result reduced
\* modulo 2^w, whether or not it is a value of the variant.
\* (Violated: with overflow checks a result that is no value of the variant
\* panics, and the arm of MUL for U8 pushes a-b, vm.rs:676.)
C33_OverflowWraps ==
    \A n \in 1..Len(hist), variant \in IntVariants, x \in ArithSamples, y \in ArithSamples :
        LET h == hist[n]
        IN (/\ h.instr.op \in {"ADD", "SUB", "MUL"}
            /\ RegOk(h.instr.a) /\ RegOk(h.instr.b)
            /\ FitsVariant(variant, x) /\ FitsVariant(variant, y)
            /\ h.pre.reg[h.instr.a] = ValueOf(variant, x)
            /\ h.pre.reg[h.instr.b] = ValueOf(variant, y))
           => /\ h.st = "ok"
              /\ h.post.stack
                   = Append(h.pre.stack, Wrapped(variant, Exact(h.instr.op, x, y)))

----------------------------------------------------------------------------
(* The length of each instruction in the loop of exec()                    *)

\* A tag and a payload of zero bytes
ZeroImmed(tag) == <<tag>> \o [k \in 1..SizeOf(VariantOfTag(tag)) |-> 0]

\* One instruction of each opcode 0..26, the immediates with each tag 0..9
LengthInstrs ==
    {<<op>> : op \in {0, 1}}
        \cup {<<op, 1>> : op \in {2, 4, 5, 24, 26}}
        \cup {<<op, a>> : op \in (8..12) \cup {23, 25}, a \in {0, 5}}
        \cup {<<op, 1, 2>> : op \in {7} \cup (13..20)}
        \cup {<<3>> \o ZeroImmed(tag) : tag \in 0..9}
        \cup {<<op, 1>> \o ZeroImmed(tag) : op \in {6, 21, 22}, tag \in 0..9}

\* What runs before: nothing, PUSH U8(1), LDI R2 U8(1), LDI R1 U64(0),
\* CMP R1 R2 on equal registers, LDI R1 U8(1) and CMP R1 R2
LengthPrefixes ==
    { <<>>, <<3, 0, 1>>, <<6, 2, 0, 1>>, <<6, 1>> \o ZeroImmed(6),
      <<13, 1, 2>>, <<6, 1, 0, 1, 13, 1, 2>> }

\* What follows: nothing, or NOP and PUSH U8(7)
LengthSuffixes == {<<>>, <<0, 3, 0, 7>>}

InitLengths ==
    /\ AsmIdle /\ EnvInit /\ HistInit(<<>>)
    /\ \E pre \in LengthPrefixes, ins \in LengthInstrs, suf \in LengthSuffixes :
          VMFresh(pre \o ins \o suf, HeapMax)
    /\ vpc = "new"

SpecLengths == InitLengths /\ [][NextVM]_vars

\* The operand bytes the wire-format table lists for the opcode at offset p
OperandLen(mem, p) ==
    LET op == At(mem, p)
    IN CASE op \in {0, 1} -> 0
         [] op = 3 -> 1 + SizeOf(VariantOfTag(At(mem, p + 1)))
         [] op \in {6, 21, 22} -> 2 + SizeOf(VariantOfTag(At(mem, p + 2)))
         [] op \in {7} \cup (13..20) -> 2
         [] OTHER -> 1

\* The opcode at offset p is one of the table, its immediate has a valid tag
InWireTable(mem, p) ==
    /\ At(mem, p) \in 0..26
    /\ At(mem, p) = 3 => At(mem, p + 1) \in 0..9
    /\ At(mem, p) \in {6, 21, 22} => At(mem, p + 2) \in 0..9

\* C34: an iteration of the loop that began at an opcode 0..26 at offset p
\* (its immediate, if it has one, with a valid tag), ran the instruction and
\* took no jump leaves instr_ptr at p + 1 + the operand bytes of the table.
\* (Violated: the arms of decode for NOP and HLT step instr_ptr themselves,
\* vm.rs:178-185, and the loop steps it again: p + 2, not p + 1.)
C34_InstructionLengths ==
    \A n \in 1..Len(hist) :
        (/\ hist[n].st = "ok"
         /\ InWireTable(instr_mem, hist[n].at)
         /\ ~IsTakenJump(hist[n]))
        => hist[n].next = hist[n].at + 1 + OperandLen(instr_mem, hist[n].at)

----------------------------------------------------------------------------
(* HLT and INT 4 in the middle of a program                                *)

\* What runs first: nothing; PUSH U8(7); LDI R1 U8(1), CMP R1 R0
HaltPrefixes == {<<>>, <<3, 0, 7>>, <<6, 1, 0, 1, 13, 1, 0>>}

\* What stands after: nothing; NOP, PUSH U8(9); a byte and LDI R1 U8(5);
\* a byte, PUSH U8(0) and HSTORE 0
HaltSuffixes == {<<>>, <<0, 3, 0, 9>>, <<0, 6, 1, 0, 5>>, <<0, 3, 0, 0, 23, 0>>}

\* HLT between a prefix and a suffix; INT 4 on the empty string at address 0,
\* on a free cell and on an empty stack, before a suffix
HaltPrograms ==
    {pre \o <<1>> \o suf : pre \in HaltPrefixes, suf \in HaltSuffixes}
        \cup {arg \o <<2, 4>> \o suf :
                 arg \in {StringAtZero, <<3, 0, 0>>, <<>>}, suf \in HaltSuffixes}

InitHalt ==
    /\ AsmIdle /\ EnvInit /\ HistInit(<<>>)
    /\ \E code \in HaltPrograms : VMFresh(code, HeapMax)
    /\ vpc = "new"

SpecHalt == InitHalt /\ [][NextVM]_vars

\* C35: in the first call of exec(), an executed HLT is the last instruction
\* decoded or executed, and stack, registers, heap and flags stay as HLT left
\* them until exec() has returned; an INT 4 that ended the process is the
\* last instruction too, and nothing runs after it.
C35_HaltStops ==
    /\ [](\A n \in 1..Len(hist) :
            /\ (calls <= 1 /\ hist[n].instr.op = "HLT")
                 => /\ n = Len(hist)
                    /\ vpc \in {"running", "returned"}
                    /\ Snap(Machine) = hist[n].post
            /\ hist[n].st = "exit" => n = Len(hist) /\ vpc = "exited")
    /\ [][vpc # "exited"]_vars

\* exec() has returned after a HLT that had a PUSH before it and instructions
\* after it
C35_Witness ==
    /\ vpc = "returned" /\ calls = 1
    /\ hist # <<>> /\ Last(hist).instr.op = "HLT"
    /\ Last(hist).at + 2 < Len(instr_mem)
    /\ stack = <<U8(7)>>

----------------------------------------------------------------------------
(* The counter bit of the assembler                                        *)

\* An immediate of each size
CursorImmeds ==
    { U8(7), ImmOf("I16", 65534), ImmOf("U32", 5), ImmOf("I64", 9),
      Imm("F32", <<0, 16256>>), Imm("F64", <<0, 0, 0, 16368>>) }

\* One instruction for each arm of assemble_instr
CursorMenu ==
    {Ins(op, <<>>) : op \in {"NOP", "HLT"}}
        \cup {Ins(op, <<A(3)>>) : op \in {"INT", "HSTORE", "HLOAD"} \cup JumpOps}
        \cup {Ins(op, <<L(<<"a">>)>>) : op \in JumpOps}
        \cup {Ins(op, <<R(2)>>) : op \in {"PUSHR", "POP", "HSTORER", "HLOADR"}}
        \cup {Ins(op, <<R(1), R(2)>>) :
                 op \in {"CPY", "CMP", "ADD", "SUB", "MUL", "DIV", "AND", "OR", "XOR"}}
        \cup {Ins("PUSH", <<I(im)>>) : im \in CursorImmeds}
        \cup {Ins(op, <<R(2), I(im)>>) : op \in {"LDI", "SHR", "SHL"}, im \in CursorImmeds}

\* What stands around it: a label, a jump to it, an instruction with an immediate
CursorFill ==
    { Lbl(<<"a">>), Ins("JE", <<L(<<"a">>)>>), Ins("LDI", <<R(2), I(ImmOf("I16", 65534))>>) }

\* Items before and after the instruction
MaxFill == 1

InitCursor ==
    /\ \E pre \in SeqsUpTo(CursorFill, MaxFill), x \in CursorMenu,
          post \in SeqsUpTo(CursorFill, MaxFill) :
          AsmNew(RenderSource(pre \o <<x>> \o post, <<>>, <<" ">>, <<>>))
            /\ HistInit(pre \o <<x>> \o post)
    /\ EnvInit /\ VMNone

SpecCursor == InitCursor /\ [][NextAsm]_vars

\* The symbolic jumps of a source
SymJumps(its) == {k \in 1..Len(its) : IsSymJump(its[k])}

\* C36: in the emit pass bit never decreases and, after each instruction, is
\* the number of bytes written plus the number of symbolic jumps assembled;
\* when the emit pass is over every label stands at the offset, in the final
\* stream, of the instruction after its declaration; each patch adds one byte,
\* so that after the patch pass the length of the output is bit, and bit + 1
\* with the trailing HLT.
C36_CursorInvariant ==
    /\ [](/\ apc \in {"emit", "patch"}
               => bit = Len(machine_c) - patch_k + Len(lbl_replaces)
          /\ apc \in {"patch", "done"}
               => /\ Len(lbl_replaces) = Cardinality(SymJumps(items))
                  /\ \A e \in lbls : e[2] = LabelOffset(items, e[1])
          /\ (apc = "patch" /\ patch_k = Len(lbl_replaces)) => Len(machine_c) = bit
          /\ apc = "done" => Len(machine_c) = bit + 1)
    /\ [][bit' >= bit]_vars

\* A source with a jump, an immediate and a label after them was assembled
C36_Witness ==
    /\ apc = "done"
    /\ Len(items) = 3
    /\ IsSymJump(items[1])
    /\ items[2].op = "SHL" /\ items[2].ops[2].imm.variant = "F64"
    /\ items[3].kind = "label"
    /\ lbls = {<<items[3].name, 13>>}

----------------------------------------------------------------------------
(* The loop of exec() without a taken jump                                 *)

\* No byte of instruction memory is the opcode of a jump, so that none executes
JumpFree == \A k \in 1..Len(instr_mem) : instr_mem[k] \notin 8..12

\* An iteration of the loop was completed and the loop goes on
Iterated == steps' = steps + 1 /\ vpc' = "running"

\* C37: an iteration of the loop that took no jump leaves instr_ptr greater
\* than it found it, and one that does not is a taken jump to its own offset
\* or to one before it; over a byte vector in which no jump executes, the
\* loop makes at most as many iterations as instruction memory has bytes,
\* over all the calls of exec().
C37_TerminatesWithoutJumps ==
    /\ [](JumpFree => steps <= Len(instr_mem))
    /\ [][Iterated
            => IF IsTakenJump(Last(hist'))
               THEN instr_ptr' <= instr_ptr <=> Last(hist').instr.a <= instr_ptr
               ELSE instr_ptr' > instr_ptr]_vars

\* A vector of at least three bytes without a jump was run to its end, one
\* iteration for each byte
C37_Witness ==
    /\ vpc = "returned"
    /\ JumpFree
    /\ steps = Len(instr_mem) /\ steps >= 3

----------------------------------------------------------------------------
(* The regions HEAP_ALLOC hands out                                        *)

\* PUSH U8(1), INT 1; PUSH U8(2), INT 1; PUSH U8(7), HSTORE 0; PUSH U8(7),
\* HSTORE 1
AllocMenu ==
    { <<3, 0, 1, 2, 1>>, <<3, 0, 2, 2, 1>>, <<3, 0, 7, 23, 0>>, <<3, 0, 7, 23, 1>> }

\* Allocations and stores of a program
MaxAllocProg == 3

InitAlloc ==
    /\ AsmIdle /\ EnvInit /\ HistInit(<<>>)
    /\ \E p \in SeqsUpTo(AllocMenu, MaxAllocProg), heap_max \in 1..HeapMax :
          VMFresh(Flatten(p), heap_max)
    /\ vpc = "new"

SpecAlloc == InitAlloc /\ [][NextVM]_vars

\* The address a step has pushed, -1 when it is none of the heap it left
Pushed(h) == AsIndexBelow(Last(h.post.stack).v, Len(h.post.virt_mem))

\* The cell q was None before the step
WasFree(h, q) == q < Len(h.pre.virt_mem) /\ h.pre.virt_mem[q + 1] = ImmNone

\* The cell q was appended by the step
WasAppended(h, q) == q >= Len(h.pre.virt_mem) /\ q < Len(h.post.virt_mem)

----------------------------------------------------------------------------
(* The cells READ_FILE writes                                              *)

\* C39: after an INT 2 that read a file of k characters and pushed the
\* address b, the cells b..b+k-1 hold the characters as U32 and the cell b+k
\* holds U32(0); these k+1 cells lie within the heap and each was None before
\* the call or was appended by it, and every cell that held a value before
\* the call holds it still.
\* (Violated: HEAP_ALLOC is asked for k cells, not k+1, and on its growth path
\* answers oldLen - 1, so the characters or the terminator are written over
\* cells that held a value.)
C39_ReadFileFrame ==
    \A n \in 1..Len(hist) :
        LET h == hist[n]
            k == Len(h.host.read.text)
            b == AsIndexBelow(h.post.stack[Len(h.post.stack) - 1].v, Len(h.post.virt_mem))
        IN (/\ h.instr = Instr("INT", 2, 0, ImmNone) /\ PathOnTop(h)
            /\ h.host.read.ok /\ h.st = "ok")
           => /\ ReadAnswer(h)
              /\ \A q \in b..(b + k) : WasFree(h, q) \/ WasAppended(h, q)
              /\ \A q \in 1..Len(h.pre.virt_mem) :
                    h.pre.virt_mem[q] # ImmNone => h.post.virt_mem[q] = h.pre.virt_mem[q]

----------------------------------------------------------------------------
(* A label declared more than once                                         *)

\* .a   /= a   $ u8$7
DupMenu == { Lbl(<<"a">>), Ins("JE", <<L(<<"a">>)>>), Ins("PUSH", <<I(U8(7))>>) }

\* Items of a source with declarations of one name
MaxDupItems == 4

InitDup ==
    /\ \E its \in SeqsUpTo(DupMenu, MaxDupItems) :
          AsmNew(RenderSource(its, <<>>, <<" ">>, <<>>)) /\ HistInit(its)
    /\ EnvInit /\ VMNone

SpecDup == InitDup /\ [][NextAsm]_vars

\* The declarations of a name in a source
Decls(its, name) == {k \in 1..Len(its) : its[k].kind = "label" /\ its[k].name = name}

\* C40: a source in which a name is declared more than once is assembled
\* without a failure, and in the stream assemble() returns every symbolic jump
\* to the name, whether written before or after the last declaration, holds
\* the position the last declaration recorded: the offset of the instruction
\* after it.
C40_DuplicateLabels ==
    Cardinality(Decls(items, <<"a">>)) >= 2
    => /\ apc # "panicked"
       /\ apc = "done"
            => \A k \in SymJumps(items) :
                  machine_c[WireOffset(items, k) + 2]
                      = WireOffset(items, LastDecl(items, <<"a">>)) % 256

\* A jump stands between two declarations of its name, which record
\* different positions, and the source was assembled
C40_Witness ==
    /\ apc = "done"
    /\ \E j, k, l \in 1..Len(items) :
          /\ j < k /\ k < l
          /\ j \in Decls(items, <<"a">>) /\ l = LastDecl(items, <<"a">>)
          /\ k \in SymJumps(items)
          /\ WireOffset(items, j) # WireOffset(items, l)
          /\ machine_c[WireOffset(items, k) + 2] = WireOffset(items, l)

====
